---------------------------- MODULE Spec2Model ----------------------------
(***************************************************************************)
(* A model of Delftvisor, an OpenFlow 1.3 hypervisor.                      *)
(*                                                                         *)
(*  - the physical switches with their ports, discovered links, port       *)
(*    interest, routes (dist / next / current_next) and dynamic port rules *)
(*  - the virtual switches' tenant connections (check_online, connect)     *)
(*  - the rewriting of a tenant flow-mod's instruction set                 *)
(*  - the xid translation of forwarded tenant requests                     *)
(*                                                                         *)
(* All handlers run on one reactor thread, so every handler is one atomic  *)
(* action.                                                                 *)
(***************************************************************************)
EXTENDS Integers, Sequences, FiniteSets, TLC

(***************************************************************************)
(* Bounds of the model                                                     *)
(***************************************************************************)
\* physical switches that connect in Spec (internal ids 1..NumSwitches)
NumSwitches == 2
\* virtual switches (ids 1..NumVirtualSwitches)
NumVirtualSwitches == 2
\* the builds differ in MetadataTag::num_virtual_switch_bits: 1..MaxVirtualSwitchBits
MaxVirtualSwitchBits == 2
\* instructions in the instruction set of a tenant flow-mod
MaxInstructions == 3
\* actions in an apply-actions list
MaxActionListLen == 2
\* xids one OpenFlow session hands out in SpecXid
MaxXid == 3
\* the calls of try_connect and of handle_connect are counted modulo MaxConnects
MaxConnects == 3
\* topology discovery messages one physical switch sends
MaxProbes == 2

(***************************************************************************)
(* Program constants                                                       *)
(***************************************************************************)
\* topology::infinite
infinite == 10000
\* the width of the metadata register (uint64_t)
MetadataWidth == 64
\* the table ids of a goto-table instruction are uint8_t
TableIdModulus == 256
\* fluid_msg::of13::OFPTT_ALL: all the tables of a switch
OFPTT_ALL == 255

SwitchIds == 1..NumSwitches
SpecSwitches == SwitchIds
VirtualSwitches == 1..NumVirtualSwitches

\* The ports a physical switch can report: port "out" is cabled to the next
\* switch, port "in" to the previous one, port "host" leads to a host.
Wiring == [out |-> 1, in |-> 2, host |-> 3]

\* The datapath id switch s reports in its features reply.
DpidOf(s) == 100 + s

\* nullptr of a shared_ptr<DiscoveredLink>
NoLink == [a |-> 0, pa |-> 0, b |-> 0, pb |-> 0]

\* The cables between the switches: port "out" of s is wired to port "in" of
\* the next switch.  A DiscoveredLink can only be found along a cable.
Line(n) == {[a |-> s, pa |-> Wiring.out, b |-> s + 1, pb |-> Wiring.in] : s \in 1..(n - 1)}

\* Configuration: the port map of the virtual switches (virtual port ->
\* physical datapath id and port).  Every virtual switch has virtual port 1
\* on the host port of switch 1; virtual switch 1 spans switch 2 as well.
VSPorts(v) ==
    IF v = 1
    THEN [vp \in {1, 2} |-> [datapath_id |-> DpidOf(vp), port_number |-> Wiring.host]]
    ELSE [vp \in {1} |-> [datapath_id |-> DpidOf(1), port_number |-> Wiring.host]]

\* Maps (std::unordered_map) as functions; f @@ EmptyMap is f, evaluated once.
EmptyMap == [x \in {} |-> 0]
Map(f) == f @@ EmptyMap
Put(m, k, v) == (k :> v) @@ m
Erase(m, k) == Map([x \in (DOMAIN m) \ {k} |-> m[x]])

VARIABLES
    \* environment
    cables,           \* the cables that exist between the switches' ports
    hosts,            \* the switches whose host port has a host attached
    device,           \* internal id -> the datapath id of the switch at the other end
    \* Hypervisor
    accepted,         \* the internal ids handed out so far (ids are never reused)
    alive,            \* physical switches by internal id (the registry of sessions)
    identified,       \* physical switches by datapath id: datapath id -> internal id
    links,            \* the DiscoveredLinks whose liveness timer is running
    slice_started,    \* Slice::started
    \* PhysicalSwitch, per internal id
    state,            \* unregistered / registered
    datapath_id,      \* features.datapath_id
    ports,            \* port number -> [link, state]
    needed_ports,     \* port number -> set of interested virtual switches
    dist,             \* switch id -> distance
    next,             \* switch id -> port to forward over
    current_next,     \* switch id -> port of the installed transit rule
    \* VirtualSwitch, per virtual switch id
    socket_open,      \* socket.is_open()
    connecting,       \* an async_connect is outstanding
    session,          \* OpenflowConnection::start() has run on the open socket
    attempts,         \* history: the calls of try_connect, counted modulo MaxConnects
    completed,        \* history: the calls of handle_connect, counted modulo MaxConnects
    \* the session of a physical switch, per internal id
    start_log,        \* history: what PhysicalSwitch::start did, in order; after stop, how it unregistered
    topology_discovery_timer, \* an async_wait on the timer is outstanding
    probes,           \* history: the topology discovery messages sent, up to MaxProbes
    \* history
    interest_changed, \* switches whose needed_ports changed since their last update_dynamic_rules
    routes_current,   \* no port with a link was removed since the last calculate_routes
    \* rewriting of a tenant flow-mod
    num_virtual_switch_bits, \* MetadataTag::num_virtual_switch_bits of this build
    old_instruction_set,     \* the instruction set of the tenant's flow-mod
    rewritten,               \* what rewrite_instruction_set made of it, or NotRewritten
    \* xid translation on one physical switch
    next_xid,         \* the xid the session hands out next
    xid_map,          \* translated xid -> RequestSource
    requests,         \* history: translated xid -> the tenant's xid and virtual switch
    virtual_switches, \* the virtual switches that exist (a weak_ptr to another has expired)
    reply,            \* the reply of the physical switch being handled, or NoMessage
    forwarded,        \* the messages handed to virtual switches: [to, xid]
    \* the dynamic rules of one physical switch
    rule_ports,       \* ports of the switch: port number -> [link, state]
    rule_needed,      \* needed_ports of the switch
    rule_table,       \* the dynamic rules installed in the flow tables of the switch
    rule_sent,        \* history: the flow-mods of the last update_dynamic_rules
    rule_fresh,       \* history: needed_ports is unchanged since the last update_dynamic_rules
    \* handle_port on one physical switch
    hp_ports,         \* ports of the switch: port number -> [port_data, state]
    hp_needed,        \* needed_ports of the switch
    hp_connected,     \* the virtual switches whose is_connected() is true
    hp_in,            \* history: the port and reason handle_port was last called with
    hp_sent,          \* history: the port-status messages the last handle_port sent, in order
    \* handle_packet_in on one physical switch
    pi_in,            \* history: the packet-in handle_packet_in was last called with
    pi_topology,      \* history: the in-ports of the packet-ins handed to the topology engine
    pi_reissued,      \* history: the packet-ins sent on to virtual switches: [to, in_port]
    \* the send path of one OpenflowConnection
    send_queue,       \* std::queue of the messages to send; the front is being sent
    writes,           \* the async_writes that are outstanding, by the message they write
    written,          \* history: the messages written to the socket, in order
    enqueued,         \* history: the messages send_message was called with, in order
    \* the echo keepalive of the sessions, per internal id of the switch
    echo_received,    \* OpenflowConnection::echo_received
    echo_open,        \* the connection has not been terminated
    echo_outstanding, \* an echo request is on its way and not answered yet
    echo_ticks,       \* history: the echo ticks so far, up to MaxEchoTicks
    echo_missed,      \* history: a tick came while an echo request was unanswered
    \* the features of the physical switches, per internal id
    group_features,   \* the bitmap types of PhysicalSwitch::group_features
    meter_features,   \* PhysicalSwitch::meter_features: [band_types, max_meter]
    error_log,        \* history: the errors the handlers of the features replies logged
    \* the switch-transit rules of one physical switch
    tr_registry,      \* Hypervisor::get_physical_switches: the ids in the registry
    tr_dist,          \* dist of the switch
    tr_next,          \* next of the switch
    tr_current_next,  \* current_next of the switch
    tr_table,         \* the switch-transit rules installed in table 1 of the switch
    tr_sent,          \* history: the flow-mods of the last switch-transit loop
    \* reset_distances on one physical switch
    sd_ports,         \* ports of the switch: port number -> [link, state]
    sd_dist,          \* dist after reset_distances
    sd_next,          \* next after reset_distances
    \* the output groups and switch forward groups of one physical switch
    og_registry,      \* the ids of the physical switches that are registered
    og_dist,          \* dist of the switch
    og_next,          \* next of the switch
    og_local,         \* the local port of the virtual ports: "absent", "host" or "link"
    og_rewrite_map,   \* rewrite_map: virtual switch -> virtual port -> OutputGroup
    og_forward,       \* switch_id_to_group_id: switch id -> SwitchForwardGroup
    og_next_id,       \* group_id_allocator: the id new_id() returns next
    og_sent,          \* history: the group-mods of the last update_dynamic_rules
    og_installed,     \* the groups installed on the switch: group id -> the last group-mod
    og_threw          \* history: a lookup of update_dynamic_rules found no entry

hvVars == <<cables, hosts, device, accepted, alive, identified, links, slice_started>>
psVars == <<state, datapath_id, ports, needed_ports, dist, next, current_next>>
vsVars == <<socket_open, connecting, session, attempts, completed>>
sessVars == <<start_log, topology_discovery_timer, probes>>
histVars == <<interest_changed, routes_current>>
topoVars == <<hvVars, psVars, vsVars, sessVars, histVars>>
rewriteVars == <<num_virtual_switch_bits, old_instruction_set, rewritten>>
xidVars == <<next_xid, xid_map, requests, virtual_switches, reply, forwarded>>
ruleVars == <<rule_ports, rule_needed, rule_table, rule_sent, rule_fresh>>
portVars == <<hp_ports, hp_needed, hp_connected, hp_in, hp_sent>>
piVars == <<pi_in, pi_topology, pi_reissued>>
sqVars == <<send_queue, writes, written, enqueued>>
echoVars == <<echo_received, echo_open, echo_outstanding, echo_ticks, echo_missed>>
featVars == <<group_features, meter_features, error_log>>
transitVars == <<tr_registry, tr_dist, tr_next, tr_current_next, tr_table, tr_sent>>
seedVars == <<sd_ports, sd_dist, sd_next>>
ogVars == <<og_registry, og_dist, og_next, og_local, og_rewrite_map, og_forward,
           og_next_id, og_sent, og_installed, og_threw>>
routeUnitVars == <<transitVars, seedVars, ogVars>>
unitVars == <<ruleVars, portVars, piVars, sqVars, echoVars, featVars, routeUnitVars>>
tenantVars == <<rewriteVars, xidVars, unitVars>>

(***************************************************************************)
(* PhysicalSwitch: routes                                                  *)
(***************************************************************************)
\* DiscoveredLink::get_other_switch_id
get_other_switch_id(link, id) == IF link.a = id THEN link.b ELSE link.a

\* PhysicalSwitch::get_distance on the dist map d
get_distance(d, switch_id) == IF switch_id \in DOMAIN d THEN d[switch_id] ELSE infinite

\* The ports of a port map that carry a link, in the map's iteration order
\* (taken here as ascending port number).
RECURSIVE SeedLinks(_, _, _, _)
SeedLinks(R, prts, todo, id) ==
    IF todo = {} THEN R
    ELSE LET p == CHOOSE x \in todo : \A y \in todo : x <= y
             o == get_other_switch_id(prts[p].link, id)
         IN SeedLinks(
                IF prts[p].link # NoLink
                THEN [dist |-> Put(R.dist, o, 1), next |-> Put(R.next, o, p)]
                ELSE R,
                prts, todo \ {p}, id)

\* PhysicalSwitch::reset_distances of switch id with port map prts
reset_distances(id, prts) ==
    SeedLinks([dist |-> Put(EmptyMap, id, 0), next |-> EmptyMap], prts, DOMAIN prts, id)

\* PhysicalSwitch::get_next on the next map n (UINT32_MAX is written 0 - 1)
get_next(n, switch_id) == IF switch_id \in DOMAIN n THEN n[switch_id] ELSE 0 - 1

\* One round of Floyd-Warshall through switch k over the registry S: R holds
\* every switch's dist and next map.  Row k and column k do not change in
\* round k, so the round is written as one simultaneous assignment.
FloydWarshallRound(R, k, S) ==
    LET through(i, j) == get_distance(R.dist[i], k) + get_distance(R.dist[k], j)
        better(i, j) == through(i, j) < get_distance(R.dist[i], j)
        found(i) == {j \in S : better(i, j)}
    IN [dist |-> Map([i \in SwitchIds |->
                    IF i \notin S THEN R.dist[i]
                    ELSE Map([j \in (DOMAIN R.dist[i]) \cup found(i) |->
                            IF j \in found(i) THEN through(i, j) ELSE R.dist[i][j]])]),
        next |-> Map([i \in SwitchIds |->
                    IF i \notin S THEN R.next[i]
                    ELSE Map([j \in (DOMAIN R.next[i]) \cup found(i) |->
                            IF j \in found(i) THEN get_next(R.next[i], k)
                            ELSE R.next[i][j]])])]

RECURSIVE floyd_warshall(_, _, _)
floyd_warshall(R, todo, S) ==
    IF todo = {} THEN R
    ELSE LET k == CHOOSE x \in todo : \A y \in todo : x <= y
         IN floyd_warshall(FloydWarshallRound(R, k, S), todo \ {k}, S)

(***************************************************************************)
(* PhysicalSwitch: dynamic rules                                           *)
(***************************************************************************)
\* current_state with a host rule for every port some virtual switch is
\* interested in
current_state_any_interest(port, needed, port_no) ==
    IF port.link # NoLink THEN "link_rule"
    ELSE IF port_no \in DOMAIN needed /\ needed[port_no] # {}
         THEN "host_rule"
         ELSE "drop_rule"

\* update_dynamic_rules: the state the in-port rule of a port should have
current_state(port, needed, port_no) ==
    IF port.link # NoLink THEN "link_rule"
    ELSE IF port_no \in DOMAIN needed /\ Cardinality(needed[port_no]) = 1
         THEN "host_rule"
         ELSE "drop_rule"

\* PhysicalSwitch::update_dynamic_rules on one switch: the port map and the
\* current_next map it leaves behind.  The port loop stores the new state of
\* every port it sends flow-mods for; the switch-transit loop reads
\* current_next and stores nothing in it.
update_dynamic_rules(prts, needed, cur_next) ==
    [ports |-> Map([port_no \in DOMAIN prts |->
                  LET prev_state == prts[port_no].state
                      cur == current_state(prts[port_no], needed, port_no)
                  IN IF prev_state # "no_rule" /\ prev_state = cur
                     THEN prts[port_no]
                     ELSE [prts[port_no] EXCEPT !.state = cur]]),
     current_next |-> cur_next]

(***************************************************************************)
(* PhysicalSwitch: the messages of start                                   *)
(***************************************************************************)
\* The messages, as far as their order is concerned: by names the function
\* that sends them
Message(type, by) == [type |-> type, by |-> by]
MultipartRequest(what, by) == [type |-> "OFPT_MULTIPART_REQUEST", what |-> what, by |-> by]
FlowMod(command, table_id, cookie, by) ==
    [type |-> "OFPT_FLOW_MOD", command |-> command, table_id |-> table_id,
     cookie |-> cookie, by |-> by]
MeterMod(command, meter_id, by) ==
    [type |-> "OFPT_METER_MOD", command |-> command, meter_id |-> meter_id, by |-> by]
GroupMod(command, group_type, group_id, by) ==
    [type |-> "OFPT_GROUP_MOD", command |-> command, group_type |-> group_type,
     group_id |-> group_id, by |-> by]

\* Hypervisor::get_slices: the ids of the configured slices (one slice)
get_slices == {0}

\* The elements of a set of numbers in ascending order
RECURSIVE Ascending(_)
Ascending(set) ==
    IF set = {} THEN <<>>
    ELSE LET least == CHOOSE x \in set : \A y \in set : x <= y
         IN <<least>> \o Ascending(set \ {least})

\* The concatenation of the sequences f[x], x running through the sequence order
RECURSIVE Concat(_, _)
Concat(order, f) ==
    IF order = <<>> THEN <<>> ELSE f[Head(order)] \o Concat(Tail(order), f)

\* OpenflowConnection::start: the hello of the session
OpenflowConnection_start == <<Message("OFPT_HELLO", "OpenflowConnection::start")>>

\* make_topology_discovery_rule: the rule that hands the probes to the
\* controller (table 0, cookie 1)
make_topology_discovery_rule ==
    <<FlowMod("OFPFC_ADD", 0, "1", "create_static_rules")>>

\* PhysicalSwitch::create_static_rules: the messages it sends
create_static_rules ==
    make_topology_discovery_rule
    \o <<FlowMod("OFPFC_ADD", 0, "2", "create_static_rules"),
         FlowMod("OFPFC_ADD", 1, "3", "create_static_rules"),
         FlowMod("OFPFC_ADD", 0, "OFPP_CONTROLLER", "create_static_rules")>>
    \o Concat(Ascending(get_slices),
              [slice \in get_slices |->
                  <<MeterMod("OFPMC_ADD", slice + 1, "create_static_rules")>>])
    \o <<GroupMod("OFPGC_ADD", "OFPGT_INDIRECT", 0, "create_static_rules")>>

\* PhysicalSwitch::update_dynamic_rules: the flow-mods its loop over the
\* ports sends, in ascending port order: the rules of table 0 and table 1
\* (priority 10, cookie the port number), then the shared link rules
\* (table 1, priority 30) of the virtual switches interested in the port
PortRuleMessages(prts, needed) ==
    Concat(Ascending(DOMAIN prts),
           [port_no \in DOMAIN prts |->
               LET prev_state == prts[port_no].state
                   cur == current_state(prts[port_no], needed, port_no)
                   command == IF prev_state = "no_rule" THEN "OFPFC_ADD" ELSE "OFPFC_MODIFY"
                   interested == IF port_no \in DOMAIN needed THEN needed[port_no] ELSE {}
                   shared == IF prev_state # "link_rule" /\ cur = "link_rule"
                             THEN <<FlowMod("OFPFC_ADD", 1, "0", "update_dynamic_rules")>>
                             ELSE IF prev_state = "link_rule" /\ cur # "link_rule"
                             THEN <<FlowMod("OFPFC_DELETE", 1, "0", "update_dynamic_rules")>>
                             ELSE <<>>
               IN IF prev_state # "no_rule" /\ prev_state = cur THEN <<>>
                  ELSE <<FlowMod(command, 0, ToString(port_no), "update_dynamic_rules"),
                         FlowMod(command, 1, ToString(port_no), "update_dynamic_rules")>>
                       \o Concat(Ascending(interested), [v \in interested |-> shared])])

\* PhysicalSwitch::update_dynamic_rules: the flow-mods its loop over the
\* other switches of the registry S sends (table 1, priority 20)
TransitMessages(id, S, nxt, cur_next) ==
    Concat(Ascending(S \ {id}),
           [other_id \in S \ {id} |->
               LET next_exists == other_id \in DOMAIN nxt
                   current_exists == other_id \in DOMAIN cur_next
               IN IF ~next_exists /\ ~current_exists THEN <<>>
                  ELSE IF next_exists /\ current_exists /\ nxt[other_id] = cur_next[other_id]
                  THEN <<>>
                  ELSE <<FlowMod(IF ~current_exists THEN "OFPFC_ADD"
                                 ELSE IF next_exists THEN "OFPFC_MODIFY"
                                 ELSE "OFPFC_DELETE",
                                 1, "0", "update_dynamic_rules")>>])

\* start with the static rules sent before the blanket delete
start_rules_first(id, S, prts, needed, nxt, cur_next) ==
    OpenflowConnection_start
    \o <<Message("OFPT_FEATURES_REQUEST", "start"),
         MultipartRequest("OFPMP_METER_FEATURES", "start"),
         MultipartRequest("OFPMP_GROUP_FEATURES", "start"),
         MultipartRequest("OFPMP_PORT_DESC", "start")>>
    \o create_static_rules
    \o <<FlowMod("OFPFC_DELETE", OFPTT_ALL, "0", "start"),
         Message("OFPT_BARRIER_REQUEST", "start")>>
    \o PortRuleMessages(prts, needed)
    \o TransitMessages(id, S, nxt, cur_next)
    \o <<Message("schedule_topology_discovery_message", "start")>>

\* PhysicalSwitch::start of the switch with internal id id, in the registry
\* S: the messages it enqueues, in order, and at the end the scheduling of
\* the first topology discovery message
start(id, S, prts, needed, nxt, cur_next) ==
    OpenflowConnection_start
    \o <<Message("OFPT_FEATURES_REQUEST", "start"),
         MultipartRequest("OFPMP_METER_FEATURES", "start"),
         MultipartRequest("OFPMP_GROUP_FEATURES", "start"),
         MultipartRequest("OFPMP_PORT_DESC", "start"),
         FlowMod("OFPFC_DELETE", OFPTT_ALL, "0", "start"),
         Message("OFPT_BARRIER_REQUEST", "start")>>
    \o create_static_rules
    \o PortRuleMessages(prts, needed)
    \o TransitMessages(id, S, nxt, cur_next)
    \o <<Message("schedule_topology_discovery_message", "start")>>

\* cancel that leaves the wait outstanding
cancel_nothing(outstanding) == outstanding

\* boost::asio::deadline_timer::cancel: no wait is outstanding afterwards
cancel(outstanding) == FALSE

(***************************************************************************)
(* VirtualSwitch                                                           *)
(***************************************************************************)
\* VirtualSwitch::check_online on one virtual switch, whose socket is open
\* (is_open) and connecting (conn) as given: the loop over the ports has an
\* empty body, so all_online_and_reachable stays true.
check_online(started, is_open, conn) ==
    LET all_online_and_reachable == TRUE
    IN IF ~started
       THEN [socket_open |-> is_open, connecting |-> conn, stopped |-> FALSE, tried |-> FALSE]
       ELSE IF all_online_and_reachable /\ ~is_open
            THEN \* start(): try_connect(); async_connect opens the socket
                 [socket_open |-> TRUE, connecting |-> TRUE, stopped |-> FALSE, tried |-> TRUE]
       ELSE IF ~all_online_and_reachable /\ is_open
            THEN \* stop(): OpenflowConnection::stop(), socket.close()
                 [socket_open |-> FALSE, connecting |-> conn, stopped |-> TRUE, tried |-> FALSE]
       ELSE [socket_open |-> is_open, connecting |-> conn, stopped |-> FALSE, tried |-> FALSE]

(***************************************************************************)
(* Hypervisor                                                              *)
(***************************************************************************)
\* Hypervisor::calculate_routes over the registry S with the port maps P:
\* reset_distances on every switch, Floyd-Warshall, update_dynamic_rules on
\* every switch.  (check_online on every virtual switch follows: CheckAll.)
calculate_routes(S, P, NP, CN) ==
    LET seed == Map([s \in SwitchIds |->
                   IF s \in S THEN reset_distances(s, P[s])
                   ELSE [dist |-> EmptyMap, next |-> EmptyMap]])
        R == floyd_warshall([dist |-> Map([s \in SwitchIds |-> seed[s].dist]),
                             next |-> Map([s \in SwitchIds |-> seed[s].next])], S, S)
        upd == Map([s \in SwitchIds |->
                   IF s \in S THEN update_dynamic_rules(P[s], NP[s], CN[s])
                   ELSE [ports |-> P[s], current_next |-> CN[s]]])
    IN [dist |-> R.dist, next |-> R.next,
        ports |-> Map([s \in SwitchIds |-> upd[s].ports]),
        current_next |-> Map([s \in SwitchIds |-> upd[s].current_next])]

\* The part of calculate_routes every caller shares: the new routes and
\* rules of the switches in S', then check_online on every virtual switch.
Recalculate(S, P) ==
    LET r == calculate_routes(S, P, needed_ports, current_next)
        c == [v \in VirtualSwitches |->
                check_online(slice_started, socket_open[v], connecting[v])]
    IN /\ dist' = r.dist
       /\ next' = r.next
       /\ ports' = r.ports
       /\ current_next' = r.current_next
       /\ socket_open' = [v \in VirtualSwitches |-> c[v].socket_open]
       /\ connecting' = [v \in VirtualSwitches |-> c[v].connecting]
       /\ session' = [v \in VirtualSwitches |-> session[v] /\ ~c[v].stopped]
       /\ attempts' = [v \in VirtualSwitches |->
                          IF c[v].tried THEN (attempts[v] + 1) % MaxConnects ELSE attempts[v]]
       /\ completed' = completed
       /\ interest_changed' = {}
       /\ routes_current' = TRUE


(***************************************************************************)
(* Actions: physical switches                                              *)
(***************************************************************************)
\* A physical switch connects: the hypervisor hands out its internal id and
\* registers it by id, then PhysicalSwitch::PhysicalSwitch and start().
\* start() finds no port and no route, so update_dynamic_rules sends nothing.
Accept(s) ==
    /\ s \notin accepted
    /\ accepted' = accepted \cup {s}
    /\ alive' = alive \cup {s}
    /\ state' = [state EXCEPT ![s] = "unregistered"]
    /\ datapath_id' = [datapath_id EXCEPT ![s] = 0]
    /\ LET u == update_dynamic_rules(ports[s], needed_ports[s], current_next[s])
       IN /\ ports' = [ports EXCEPT ![s] = u.ports]
          /\ current_next' = [current_next EXCEPT ![s] = u.current_next]
    /\ interest_changed' = interest_changed \ {s}
    /\ start_log' = [start_log EXCEPT ![s] =
          start(s, alive \cup {s}, ports[s], needed_ports[s], next[s], current_next[s])]
    /\ topology_discovery_timer' = [topology_discovery_timer EXCEPT ![s] = TRUE]
    /\ UNCHANGED <<tenantVars, cables, hosts, device, identified, links, slice_started,
                   needed_ports, dist, next, vsVars, routes_current, probes>>

\* PhysicalSwitch::handle_features_reply
HandleFeaturesReply(s) ==
    /\ s \in alive
    /\ datapath_id' = [datapath_id EXCEPT ![s] = device[s]]
    /\ identified' = Put(identified, device[s], s)
    /\ state' = [state EXCEPT ![s] = "registered"]
    /\ Recalculate(alive, ports)
    /\ UNCHANGED <<tenantVars, sessVars, cables, hosts, device, accepted, alive, links, slice_started, needed_ports>>

\* The ports switch s physically has: the ends of its cables and, with a
\* host attached, its host port
PhysPorts(s) ==
    {c.pa : c \in {x \in cables : x.a = s}} \cup {c.pb : c \in {x \in cables : x.b = s}}
    \cup (IF s \in hosts THEN {Wiring.host} ELSE {})

\* PhysicalSwitch::handle_port on the port map prts
handle_port(prts, port_no, reason) ==
    IF port_no \notin DOMAIN prts
    THEN IF reason = "OFPPR_DELETE" THEN prts
         ELSE Put(prts, port_no, [link |-> NoLink, state |-> "no_rule"])
    ELSE IF reason = "OFPPR_DELETE" THEN Erase(prts, port_no)
         ELSE prts

\* PhysicalSwitch::handle_port_status
HandlePortStatus(s, port_no, reason) ==
    /\ s \in alive
    /\ port_no \in PhysPorts(s)
    /\ LET handled == handle_port(ports[s], port_no, reason)
           u == update_dynamic_rules(handled, needed_ports[s], current_next[s])
           lost == /\ port_no \in DOMAIN ports[s]
                   /\ port_no \notin DOMAIN handled
                   /\ ports[s][port_no].link # NoLink
       IN /\ ports' = [ports EXCEPT ![s] = u.ports]
          /\ current_next' = [current_next EXCEPT ![s] = u.current_next]
          /\ routes_current' = (routes_current /\ ~lost)
    /\ interest_changed' = interest_changed \ {s}
    /\ UNCHANGED <<tenantVars, sessVars, hvVars, state, datapath_id, needed_ports, dist, next, vsVars>>

RECURSIVE HandlePorts(_, _)
HandlePorts(prts, todo) ==
    IF todo = {} THEN prts
    ELSE LET p == CHOOSE x \in todo : \A y \in todo : x <= y
         IN HandlePorts(handle_port(prts, p, "OFPPR_ADD"), todo \ {p})

\* PhysicalSwitch::handle_multipart_reply_port_desc; the reply lists all the
\* ports of the switch
HandleMultipartReplyPortDesc(s) ==
    /\ s \in alive
    /\ LET u == update_dynamic_rules(HandlePorts(ports[s], PhysPorts(s)),
                                     needed_ports[s], current_next[s])
       IN /\ ports' = [ports EXCEPT ![s] = u.ports]
          /\ current_next' = [current_next EXCEPT ![s] = u.current_next]
    /\ interest_changed' = interest_changed \ {s}
    /\ UNCHANGED <<tenantVars, sessVars, hvVars, state, datapath_id, needed_ports, dist, next, vsVars,
                   routes_current>>

\* DiscoveredLink::stop on the port maps P: both endpoints forget the link
StopLink(P, link) ==
    Map([s \in SwitchIds |->
        Map([p \in DOMAIN P[s] |->
            IF P[s][p].link = link THEN [P[s][p] EXCEPT !.link = NoLink] ELSE P[s][p]])])

\* PhysicalSwitch::handle_topology_discovery_packet_in: switch rcv receives
\* on port p the probe that switch snd sent out of its port q.  A port that
\* has no link yet gets a new DiscoveredLink, which binds both endpoints and
\* triggers calculate_routes; a port that has one only restarts its timer.
HandleTopologyDiscoveryPacketIn(rcv, p, snd, q) ==
    /\ rcv \in alive /\ snd \in alive
    /\ p \in DOMAIN ports[rcv] /\ q \in DOMAIN ports[snd]
    /\ \E c \in cables :
          /\ \/ (c.a = snd /\ c.pa = q /\ c.b = rcv /\ c.pb = p)
             \/ (c.a = rcv /\ c.pa = p /\ c.b = snd /\ c.pb = q)
          /\ IF ports[rcv][p].link = NoLink
             THEN /\ links' = links \cup {c}
                  /\ Recalculate(alive,
                        [ports EXCEPT ![rcv][p].link = c, ![snd][q].link = c])
             ELSE UNCHANGED <<links, psVars, vsVars, histVars>>
    /\ UNCHANGED <<tenantVars, sessVars, cables, hosts, device, accepted, alive, identified, slice_started, state,
                   datapath_id, needed_ports>>

\* The liveness timer of a DiscoveredLink expires: DiscoveredLink::stop and
\* calculate_routes
LinkTimeout(link) ==
    /\ link \in links
    /\ links' = links \ {link}
    /\ Recalculate(alive, StopLink(ports, link))
    /\ UNCHANGED <<tenantVars, sessVars, cables, hosts, device, accepted, alive, identified, slice_started, state,
                   datapath_id, needed_ports>>

RECURSIVE StopLinks(_, _)
StopLinks(P, todo) ==
    IF todo = {} THEN P
    ELSE LET l == CHOOSE x \in todo : TRUE
         IN StopLinks(StopLink(P, l), todo \ {l})

\* PhysicalSwitch::stop, after which the session is destroyed (its fields
\* are put back to the values the constructor gives them)
Stop(s) ==
    /\ s \in alive
    /\ alive' = alive \ {s}
    /\ state' = [state EXCEPT ![s] = "unregistered"]
    /\ datapath_id' = [datapath_id EXCEPT ![s] = 0]
    /\ needed_ports' = [needed_ports EXCEPT ![s] = EmptyMap]
    /\ identified' = IF state[s] = "unregistered" THEN identified
                     ELSE Erase(identified, datapath_id[s])
    /\ LET mine == {ports[s][p].link : p \in DOMAIN ports[s]} \ {NoLink}
           P == [StopLinks(ports, mine) EXCEPT ![s] = EmptyMap]
       IN /\ links' = links \ mine
          /\ Recalculate(alive \ {s}, P)
    /\ topology_discovery_timer' =
          [topology_discovery_timer EXCEPT ![s] = cancel(@)]
    /\ start_log' = [start_log EXCEPT ![s] =
          IF state[s] = "unregistered"
          THEN <<Message("unregister_physical_switch(id)", "stop")>>
          ELSE <<Message("unregister_physical_switch(datapath_id, id)", "stop")>>]
    /\ UNCHANGED <<tenantVars, cables, hosts, device, accepted, slice_started, probes>>

\* PhysicalSwitch::send_topology_discovery_message: the wait on the timer
\* completes, a probe goes out of the next port and the next wait is
\* scheduled; a wait that was cancelled sends nothing
send_topology_discovery_message(s) ==
    /\ s \in alive
    /\ topology_discovery_timer[s]
    /\ probes[s] < MaxProbes
    /\ probes' = [probes EXCEPT ![s] = @ + 1]
    /\ UNCHANGED <<tenantVars, hvVars, psVars, vsVars, histVars, start_log,
                   topology_discovery_timer>>

\* The virtual switches that name port port_no of the switch with datapath
\* id dpid in their port map
Interested(dpid, port_no) ==
    {v \in VirtualSwitches :
        \E vp \in DOMAIN VSPorts(v) :
            VSPorts(v)[vp] = [datapath_id |-> dpid, port_number |-> port_no]}

\* PhysicalSwitch::register_port_interest
RegisterPortInterest(s, port, v) ==
    /\ s \in alive /\ state[s] = "registered"
    /\ v \in Interested(datapath_id[s], port)
    /\ v \notin (IF port \in DOMAIN needed_ports[s] THEN needed_ports[s][port] ELSE {})
    /\ needed_ports' = [needed_ports EXCEPT ![s] =
          Put(@, port, (IF port \in DOMAIN @ THEN @[port] ELSE {}) \cup {v})]
    /\ interest_changed' = interest_changed \cup {s}
    /\ UNCHANGED <<tenantVars, sessVars, hvVars, state, datapath_id, ports, dist, next, current_next,
                   vsVars, routes_current>>

\* PhysicalSwitch::remove_port_interest
RemovePortInterest(s, port, v) ==
    /\ s \in alive
    /\ port \in DOMAIN needed_ports[s]
    /\ v \in needed_ports[s][port]
    /\ needed_ports' = [needed_ports EXCEPT ![s][port] = @ \ {v}]
    /\ interest_changed' = interest_changed \cup {s}
    /\ UNCHANGED <<tenantVars, sessVars, hvVars, state, datapath_id, ports, dist, next, current_next,
                   vsVars, routes_current>>

(***************************************************************************)
(* Actions: slice and virtual switches                                     *)
(***************************************************************************)
\* Slice::start: the slice's started flag is set
SliceStart ==
    /\ ~slice_started
    /\ slice_started' = TRUE
    /\ UNCHANGED <<tenantVars, sessVars, cables, hosts, device, accepted, alive, identified, links, psVars, vsVars, histVars>>

\* handle_connect that gives up after a failed connect instead of calling
\* try_connect again
HandleConnect_gives_up(v, error) ==
    /\ connecting[v]
    /\ completed' = [completed EXCEPT ![v] = (@ + 1) % MaxConnects]
    /\ session' = [session EXCEPT ![v] = ~error]
    /\ connecting' = [connecting EXCEPT ![v] = FALSE]
    /\ UNCHANGED <<socket_open, attempts>>
    /\ UNCHANGED <<tenantVars, sessVars, hvVars, psVars, histVars>>

\* VirtualSwitch::handle_connect: the outstanding async_connect completes,
\* with or without an error
HandleConnect(v, error) ==
    /\ connecting[v]
    /\ completed' = [completed EXCEPT ![v] = (@ + 1) % MaxConnects]
    /\ IF ~error
       THEN \* OpenflowConnection::start()
            /\ session' = [session EXCEPT ![v] = TRUE]
            /\ connecting' = [connecting EXCEPT ![v] = FALSE]
            /\ UNCHANGED <<socket_open, attempts>>
       ELSE \* try_connect()
            /\ socket_open' = [socket_open EXCEPT ![v] = TRUE]
            /\ connecting' = [connecting EXCEPT ![v] = TRUE]
            /\ attempts' = [attempts EXCEPT ![v] = (@ + 1) % MaxConnects]
            /\ UNCHANGED session
    /\ UNCHANGED <<tenantVars, sessVars, hvVars, psVars, histVars>>

(***************************************************************************)
(* PhysicalSwitch: xid translation                                         *)
(***************************************************************************)
NoMessage == [state |-> "none", xid |-> 0]

\* The xids the tenant controllers give their requests
TenantXids == {1, 100 + MaxXid}

\* OpenflowConnection::send_message: the message goes out under the next xid
\* of the session, which is set in the message and returned
send_message(message, xid) == [message EXCEPT !.xid = xid]

\* PhysicalSwitch::send_request_message of the request message of virtual
\* switch virtual_switch
SendRequestMessage(message, virtual_switch) ==
    /\ next_xid < MaxXid
    /\ virtual_switch \in virtual_switches
    /\ LET sent == send_message(message, next_xid)
           xid == sent.xid
       IN xid_map' = Put(xid_map, xid,
                         [original_xid |-> sent.xid, virtual_switch |-> virtual_switch])
    /\ next_xid' = next_xid + 1
    /\ requests' = Put(requests, next_xid,
                       [original_xid |-> message.xid, virtual_switch |-> virtual_switch])
    /\ UNCHANGED <<unitVars, topoVars, rewriteVars, virtual_switches, reply, forwarded>>

\* A virtual switch is destroyed: the weak_ptrs to it expire
DestroyVirtualSwitch(virtual_switch) ==
    /\ virtual_switch \in virtual_switches
    /\ virtual_switches' = virtual_switches \ {virtual_switch}
    /\ UNCHANGED <<unitVars, topoVars, rewriteVars, next_xid, xid_map, requests, reply, forwarded>>

\* The physical switch sends a message with the given xid
ReceiveReply(xid) ==
    /\ reply.state # "received"
    /\ reply' = [state |-> "received", xid |-> xid]
    /\ UNCHANGED <<unitVars, topoVars, rewriteVars, next_xid, xid_map, requests, virtual_switches,
                   forwarded>>

\* forward_reply that does not lock the weak_ptr
forward_reply_unlocked(map, live, xid) ==
    IF xid \notin DOMAIN map THEN {}
    ELSE {[to |-> map[xid].virtual_switch, xid |-> map[xid].original_xid]}

\* The messages that handling a reply with the given xid hands to virtual
\* switches, with xid_map map and the virtual switches live in existence
forward_reply(map, live, xid) ==
    IF xid \notin DOMAIN map THEN {}
    ELSE IF map[xid].virtual_switch \notin live THEN {}
    ELSE {[to |-> map[xid].virtual_switch, xid |-> map[xid].original_xid]}

\* The reply of the physical switch is handled
HandleReply ==
    /\ reply.state = "received"
    /\ reply' = [reply EXCEPT !.state = "handled"]
    /\ forwarded' = forwarded \cup forward_reply(xid_map, virtual_switches, reply.xid)
    /\ UNCHANGED <<unitVars, topoVars, rewriteVars, next_xid, xid_map, requests, virtual_switches>>

(***************************************************************************)
(* PhysicalSwitch: rewriting the instruction set of a tenant flow-mod      *)
(***************************************************************************)
\* A uint64_t is the set of the positions of its 1 bits: | is \cup, & is \cap
ShiftLeft(word, n) == {b + n : b \in {c \in word : c + n < MetadataWidth}}

\* make_mask(n): the n lowest bits
make_mask(n) == 0..(n - 1)

\* fluid_msg::of13::GoToTable::GoToTable(uint8_t table_id)
GoToTable(table_id) == [type |-> "OFPIT_GOTO_TABLE", table_id |-> table_id % TableIdModulus]

WriteMetadata(metadata, metadata_mask) ==
    [type |-> "OFPIT_WRITE_METADATA", metadata |-> metadata, metadata_mask |-> metadata_mask]

WriteActions(actions) == [type |-> "OFPIT_WRITE_ACTIONS", actions |-> actions]

ApplyActions(actions) == [type |-> "OFPIT_APPLY_ACTIONS", actions |-> actions]

\* InstructionSet::add_instruction: the set holds one instruction per type
add_instruction(instruction_set, instruction) ==
    IF instruction.type \in DOMAIN instruction_set THEN instruction_set
    ELSE Put(instruction_set, instruction.type, instruction)

\* rewrite_action_set with a set-queue action passed on like any other action
RECURSIVE rewrite_action_set_queue_passed(_, _)
rewrite_action_set_queue_passed(R, todo) ==
    IF todo = {} THEN R
    ELSE LET action == CHOOSE a \in todo : TRUE
             rest == todo \ {action}
         IN IF action.type = "OFPAT_OUTPUT"
            THEN rewrite_action_set_queue_passed(
                     [R EXCEPT !.with_output = @ \cup {action}], rest)
            ELSE IF action.type = "OFPAT_GROUP"
            THEN rewrite_action_set_queue_passed(
                     [R EXCEPT !.has_action_with_group = TRUE,
                               !.with_output = @ \cup {action},
                               !.without_output = @ \cup {action}], rest)
            ELSE rewrite_action_set_queue_passed(
                     [R EXCEPT !.with_output = @ \cup {action},
                               !.without_output = @ \cup {action}], rest)

\* rewrite_action_set with an output action added to both action sets
RECURSIVE rewrite_action_set_output_kept(_, _)
rewrite_action_set_output_kept(R, todo) ==
    IF todo = {} THEN R
    ELSE LET action == CHOOSE a \in todo : TRUE
             rest == todo \ {action}
         IN IF action.type = "OFPAT_GROUP"
            THEN rewrite_action_set_output_kept(
                     [R EXCEPT !.has_action_with_group = TRUE,
                               !.with_output = @ \cup {action},
                               !.without_output = @ \cup {action}], rest)
            ELSE IF action.type = "OFPAT_SET_QUEUE"
            THEN [R EXCEPT !.ok = FALSE]
            ELSE rewrite_action_set_output_kept(
                     [R EXCEPT !.with_output = @ \cup {action},
                               !.without_output = @ \cup {action}], rest)

\* PhysicalSwitch::rewrite_action_set: the loop over the actions todo of the
\* old action set; R holds the two new action sets, the group flag and the
\* return value
RECURSIVE rewrite_action_set(_, _)
rewrite_action_set(R, todo) ==
    IF todo = {} THEN R
    ELSE LET action == CHOOSE a \in todo : TRUE
             rest == todo \ {action}
         IN IF action.type = "OFPAT_OUTPUT"
            THEN rewrite_action_set([R EXCEPT !.with_output = @ \cup {action}], rest)
            ELSE IF action.type = "OFPAT_GROUP"
            THEN rewrite_action_set(
                     [R EXCEPT !.has_action_with_group = TRUE,
                               !.with_output = @ \cup {action},
                               !.without_output = @ \cup {action}], rest)
            ELSE IF action.type = "OFPAT_SET_QUEUE"
            THEN [R EXCEPT !.ok = FALSE]
            ELSE rewrite_action_set(
                     [R EXCEPT !.with_output = @ \cup {action},
                               !.without_output = @ \cup {action}], rest)

\* PhysicalSwitch::rewrite_action_list: the loop over the old action list
\* from its i-th action on
RECURSIVE rewrite_action_list(_, _, _)
rewrite_action_list(R, old_action_list, i) ==
    IF i > Len(old_action_list) THEN R
    ELSE LET action == old_action_list[i]
         IN IF action.type = "OFPAT_SET_QUEUE"
            THEN [R EXCEPT !.ok = FALSE]
            ELSE rewrite_action_list(
                     [R EXCEPT !.new_action_list = Append(@, action)],
                     old_action_list, i + 1)

\* The order in which an InstructionSet is iterated: the order in which a
\* switch executes the instructions (clear-actions before write-actions)
InstructionOrder ==
    <<"OFPIT_METER", "OFPIT_APPLY_ACTIONS", "OFPIT_CLEAR_ACTIONS", "OFPIT_WRITE_ACTIONS",
      "OFPIT_WRITE_METADATA", "OFPIT_GOTO_TABLE", "OFPIT_EXPERIMENTER">>

NoActions == [ok |-> TRUE, with_output |-> {}, without_output |-> {},
              has_action_with_group |-> FALSE]

\* mask_check without the shift to the top of the register
mask_check_not_shifted(total_bits) == make_mask(total_bits)

\* rewrite_instruction_set: the bits of a tenant's metadata mask that would
\* be shifted out
mask_check(total_bits) == ShiftLeft(make_mask(total_bits), MetadataWidth - total_bits)

\* The body of the loop of rewrite_instruction_set for one instruction: R
\* holds the two new instruction sets, metadata_tag, metadata_mask and
\* whether the function has returned false
RewriteInstruction(R, instruction) ==
    IF instruction.type = "OFPIT_GOTO_TABLE"
    THEN [R EXCEPT
            !.instruction_set_with_output =
                add_instruction(@, GoToTable(instruction.table_id + 2)),
            !.instruction_set_without_output =
                add_instruction(@, GoToTable(instruction.table_id + 2))]
    ELSE IF instruction.type = "OFPIT_WRITE_METADATA"
    THEN LET total_bits == num_virtual_switch_bits + 1
         IN IF instruction.metadata_mask \cap mask_check(total_bits) # {}
            THEN [R EXCEPT !.ok = FALSE]
            ELSE [R EXCEPT
                    !.metadata_tag = @ \cup ShiftLeft(instruction.metadata, total_bits),
                    !.metadata_mask = @ \cup ShiftLeft(instruction.metadata_mask, total_bits)]
    ELSE IF instruction.type = "OFPIT_WRITE_ACTIONS"
    THEN LET sets == rewrite_action_set(NoActions, instruction.actions)
         IN IF ~sets.ok THEN [R EXCEPT !.ok = FALSE]
            ELSE [R EXCEPT
                    !.metadata_tag = IF sets.has_action_with_group THEN @ \cup {0} ELSE @,
                    !.metadata_mask = IF sets.has_action_with_group THEN @ \cup {0} ELSE @,
                    !.instruction_set_with_output =
                        add_instruction(@, WriteActions(sets.with_output)),
                    !.instruction_set_without_output =
                        add_instruction(@, WriteActions(sets.without_output))]
    ELSE IF instruction.type = "OFPIT_APPLY_ACTIONS"
    THEN LET list == rewrite_action_list([ok |-> TRUE, new_action_list |-> <<>>],
                                         instruction.actions, 1)
         IN IF ~list.ok THEN [R EXCEPT !.ok = FALSE]
            ELSE [R EXCEPT
                    !.instruction_set_with_output =
                        add_instruction(@, ApplyActions(list.new_action_list)),
                    !.instruction_set_without_output =
                        add_instruction(@, ApplyActions(list.new_action_list))]
    ELSE IF instruction.type = "OFPIT_CLEAR_ACTIONS"
    THEN [R EXCEPT
            !.instruction_set_with_output = add_instruction(@, instruction),
            !.instruction_set_without_output = add_instruction(@, instruction),
            !.metadata_mask = @ \cup {0}]
    ELSE IF instruction.type = "OFPIT_METER"
    THEN [R EXCEPT !.ok = FALSE]
    ELSE IF instruction.type = "OFPIT_EXPERIMENTER"
    THEN [R EXCEPT !.ok = FALSE]
    ELSE [R EXCEPT
            !.instruction_set_with_output = add_instruction(@, instruction),
            !.instruction_set_without_output = add_instruction(@, instruction)]

\* The loop of rewrite_instruction_set from the i-th instruction type on
RECURSIVE RewriteInstructions(_, _, _)
RewriteInstructions(R, old, i) ==
    IF i > Len(InstructionOrder) \/ ~R.ok THEN R
    ELSE IF InstructionOrder[i] \notin DOMAIN old THEN RewriteInstructions(R, old, i + 1)
    ELSE RewriteInstructions(RewriteInstruction(R, old[InstructionOrder[i]]), old, i + 1)

\* PhysicalSwitch::rewrite_instruction_set: the return value and the two
\* instruction sets it has filled
rewrite_instruction_set(old) ==
    LET R == RewriteInstructions(
                 [ok |-> TRUE, metadata_tag |-> {}, metadata_mask |-> {},
                  instruction_set_with_output |-> EmptyMap,
                  instruction_set_without_output |-> EmptyMap], old, 1)
        emitted == WriteMetadata(R.metadata_tag, R.metadata_mask)
    IN IF ~R.ok
       THEN [done |-> TRUE, ok |-> FALSE,
             instruction_set_with_output |-> R.instruction_set_with_output,
             instruction_set_without_output |-> R.instruction_set_without_output]
       ELSE IF R.metadata_mask # {}
       THEN [done |-> TRUE, ok |-> TRUE,
             instruction_set_with_output |->
                 add_instruction(R.instruction_set_with_output, emitted),
             instruction_set_without_output |->
                 add_instruction(R.instruction_set_without_output, emitted)]
       ELSE [done |-> TRUE, ok |-> TRUE,
             instruction_set_with_output |-> R.instruction_set_with_output,
             instruction_set_without_output |-> R.instruction_set_without_output]

NotRewritten == [done |-> FALSE, ok |-> FALSE,
                 instruction_set_with_output |-> EmptyMap,
                 instruction_set_without_output |-> EmptyMap]

\* The tenant hands in a flow-mod and the physical switch rewrites its
\* instruction set
RewriteInstructionSet ==
    /\ ~rewritten.done
    /\ rewritten' = rewrite_instruction_set(old_instruction_set)
    /\ UNCHANGED <<unitVars, topoVars, xidVars, num_virtual_switch_bits, old_instruction_set>>

(***************************************************************************)
(* The flow-mods of the tenants                                            *)
(***************************************************************************)
TenantActions ==
    {[type |-> "OFPAT_OUTPUT", arg |-> 1], [type |-> "OFPAT_GROUP", arg |-> 1],
     [type |-> "OFPAT_SET_QUEUE", arg |-> 1], [type |-> "OFPAT_POP_VLAN", arg |-> 0]}

RECURSIVE ActionLists(_)
ActionLists(n) ==
    IF n = 0 THEN {<<>>}
    ELSE ActionLists(n - 1) \cup
         {Append(l, a) : l \in {x \in ActionLists(n - 1) : Len(x) = n - 1}, a \in TenantActions}

\* The bits a tenant sets in its metadata and mask: the lowest bit, the
\* highest bit that is not shifted out, the lowest that is, and the highest
MetadataBits(k) == {0, MetadataWidth - k - 2, MetadataWidth - k - 1, MetadataWidth - 1}

\* The metadata masks of the tenants: none, one or several of these bits
TenantMasks(k) ==
    {{}, MetadataBits(k), {0, MetadataWidth - k - 2}} \cup {{b} : b \in MetadataBits(k)}

\* The goto targets of the tenants: the lowest and the highest table ids
TenantTables == {0, 1, TableIdModulus - 3, TableIdModulus - 2, TableIdModulus - 1}

TenantInstructions(type, k) ==
    IF type = "OFPIT_GOTO_TABLE"
    THEN {[type |-> type, table_id |-> table_id] : table_id \in TenantTables}
    ELSE IF type = "OFPIT_WRITE_METADATA"
    THEN UNION {{WriteMetadata(metadata, mask) : metadata \in {{}, mask, MetadataBits(k)}} :
                  mask \in TenantMasks(k)}
    ELSE IF type = "OFPIT_WRITE_ACTIONS"
    THEN {WriteActions(actions) : actions \in SUBSET TenantActions}
    ELSE IF type = "OFPIT_APPLY_ACTIONS"
    THEN {ApplyActions(actions) : actions \in ActionLists(MaxActionListLen)}
    ELSE {[type |-> type]}

\* The instruction sets with one instruction of each of the given types
RECURSIVE InstructionSetsOf(_, _)
InstructionSetsOf(types, k) ==
    IF types = {} THEN {EmptyMap}
    ELSE LET type == CHOOSE x \in types : TRUE
         IN {Put(set, type, instruction) :
                set \in InstructionSetsOf(types \ {type}, k),
                instruction \in TenantInstructions(type, k)}

InstructionTypes == {InstructionOrder[i] : i \in DOMAIN InstructionOrder}

TenantInstructionSets(k) ==
    UNION {InstructionSetsOf(types, k) :
              types \in {x \in SUBSET InstructionTypes : Cardinality(x) <= MaxInstructions}}

(***************************************************************************)
(* Specifications                                                          *)
(***************************************************************************)
TopoInit(wires, hosted) ==
    /\ cables = wires
    /\ hosts = hosted
    /\ attempts = [v \in VirtualSwitches |-> 0]
    /\ completed = [v \in VirtualSwitches |-> 0]
    /\ start_log = [s \in SwitchIds |-> <<>>]
    /\ topology_discovery_timer = [s \in SwitchIds |-> FALSE]
    /\ probes = [s \in SwitchIds |-> 0]
    /\ accepted = {}
    /\ alive = {}
    /\ identified = EmptyMap
    /\ links = {}
    /\ slice_started = FALSE
    /\ state = [s \in SwitchIds |-> "unregistered"]
    /\ datapath_id = [s \in SwitchIds |-> 0]
    /\ ports = [s \in SwitchIds |-> EmptyMap]
    /\ needed_ports = [s \in SwitchIds |-> EmptyMap]
    /\ dist = [s \in SwitchIds |-> EmptyMap]
    /\ next = [s \in SwitchIds |-> EmptyMap]
    /\ current_next = [s \in SwitchIds |-> EmptyMap]
    /\ socket_open = [v \in VirtualSwitches |-> FALSE]
    /\ connecting = [v \in VirtualSwitches |-> FALSE]
    /\ session = [v \in VirtualSwitches |-> FALSE]
    /\ interest_changed = {}
    /\ routes_current = TRUE

vars == <<topoVars, tenantVars>>

\* What the actions on the dynamic rules of one switch leave alone
notRuleVars == <<topoVars, rewriteVars, xidVars, portVars, piVars, sqVars, echoVars, featVars, routeUnitVars>>
\* What handle_port on one switch leaves alone
notPortVars == <<topoVars, rewriteVars, xidVars, ruleVars, piVars, sqVars, echoVars, featVars, routeUnitVars>>
\* What handle_packet_in on one switch leaves alone
notPiVars == <<topoVars, rewriteVars, xidVars, ruleVars, portVars, sqVars, echoVars, featVars, routeUnitVars>>
\* What the send path of a connection leaves alone
notSqVars == <<topoVars, rewriteVars, xidVars, ruleVars, portVars, piVars, echoVars, featVars, routeUnitVars>>
\* What the echo keepalive leaves alone
notEchoVars == <<topoVars, rewriteVars, xidVars, ruleVars, portVars, piVars, sqVars, featVars, routeUnitVars>>
\* What the handlers of the features replies leave alone
notFeatVars == <<topoVars, rewriteVars, xidVars, ruleVars, portVars, piVars, sqVars, echoVars, routeUnitVars>>
\* The variables of the units above
firstUnitVars == <<ruleVars, portVars, piVars, sqVars, echoVars, featVars>>
\* What the switch-transit loop of one switch leaves alone
notTransitVars == <<topoVars, rewriteVars, xidVars, firstUnitVars, seedVars, ogVars>>
\* What reset_distances on one switch leaves alone
notSeedVars == <<topoVars, rewriteVars, xidVars, firstUnitVars, transitVars, ogVars>>
\* What the output groups of one switch leave alone
notOgVars == <<topoVars, rewriteVars, xidVars, firstUnitVars, transitVars, seedVars>>

PortNos == {Wiring.out, Wiring.in, Wiring.host}

\* The switch of the dynamic rules has no port and no rule yet
RuleIdle ==
    /\ rule_ports = EmptyMap
    /\ rule_needed = EmptyMap
    /\ rule_table = {}
    /\ rule_sent = <<>>
    /\ rule_fresh = TRUE

\* handle_port has not been called
NoPortStatus == [port_no |-> 0, port_data |-> "none", reason |-> "none"]
PortIdle ==
    /\ hp_ports = EmptyMap
    /\ hp_needed = EmptyMap
    /\ hp_connected = {}
    /\ hp_in = NoPortStatus
    /\ hp_sent = <<>>

\* handle_packet_in has not been called
NoPacketIn == [table_id |-> 0, cookie |-> 0, in_port |-> 0, virtual_switch |-> 0]
PacketInIdle ==
    /\ pi_in = NoPacketIn
    /\ pi_topology = {}
    /\ pi_reissued = {}

\* OpenflowConnection::OpenflowConnection: nothing to send
SendIdle ==
    /\ send_queue = <<>>
    /\ writes = <<>>
    /\ written = <<>>
    /\ enqueued = <<>>

\* OpenflowConnection::start: the first echo is scheduled
EchoIdle ==
    /\ echo_received = [s \in SwitchIds |-> TRUE]
    /\ echo_open = [s \in SwitchIds |-> TRUE]
    /\ echo_outstanding = [s \in SwitchIds |-> FALSE]
    /\ echo_ticks = [s \in SwitchIds |-> 0]
    /\ echo_missed = [s \in SwitchIds |-> FALSE]

\* PhysicalSwitch::PhysicalSwitch: no features reply has been stored
FeaturesIdle ==
    /\ group_features = [s \in SwitchIds |-> 0]
    /\ meter_features = [s \in SwitchIds |-> [band_types |-> 0, max_meter |-> 0]]
    /\ error_log = [s \in SwitchIds |-> {}]

\* The switch of the switch-transit rules is alone in the registry and has
\* no route and no rule
TransitOwn == 1
TransitRest ==
    /\ tr_registry = {TransitOwn}
    /\ tr_dist = Put(EmptyMap, TransitOwn, 0)
    /\ tr_next = EmptyMap
    /\ tr_table = {}
    /\ tr_sent = <<>>
TransitIdle ==
    /\ TransitRest
    /\ tr_current_next = EmptyMap

\* reset_distances has not run: no port, no distance
SeedIdle ==
    /\ sd_ports = EmptyMap
    /\ sd_dist = EmptyMap
    /\ sd_next = EmptyMap

\* The switch of the output groups is alone in the registry; no virtual
\* switch has rewrite data, no group is allocated
OutputGroupsIdle ==
    /\ og_registry = {TransitOwn}
    /\ og_dist = Put(EmptyMap, TransitOwn, 0)
    /\ og_next = EmptyMap
    /\ og_local = "absent"
    /\ og_rewrite_map = EmptyMap
    /\ og_forward = EmptyMap
    /\ og_next_id = 1
    /\ og_sent = <<>>
    /\ og_installed = EmptyMap
    /\ og_threw = FALSE

RouteUnitIdle == TransitIdle /\ SeedIdle /\ OutputGroupsIdle

UnitIdle ==
    RuleIdle /\ PortIdle /\ PacketInIdle /\ SendIdle /\ EchoIdle /\ FeaturesIdle
    /\ RouteUnitIdle

\* No tenant request is being handled
XidInit ==
    /\ next_xid = 0
    /\ xid_map = EmptyMap
    /\ requests = EmptyMap
    /\ virtual_switches = VirtualSwitches
    /\ reply = NoMessage
    /\ forwarded = {}

RewriteIdle ==
    /\ num_virtual_switch_bits = 1
    /\ old_instruction_set = EmptyMap
    /\ rewritten = NotRewritten

\* Every session is with another switch: switch s has datapath id DpidOf(s)
OwnDevices == device = [s \in SwitchIds |-> DpidOf(s)]

\* The hypervisor after construction, with its switches cabled in a line
BaseInit == TopoInit(Line(NumSwitches), SpecSwitches) /\ OwnDevices /\ RewriteIdle /\ XidInit

Init == BaseInit /\ UnitIdle

Next ==
    \/ \E s \in SpecSwitches : Accept(s)
    \/ \E s \in SpecSwitches : HandleFeaturesReply(s)
    \/ \E s \in SpecSwitches, p \in PortNos,
          reason \in {"OFPPR_ADD", "OFPPR_DELETE", "OFPPR_MODIFY"} :
          HandlePortStatus(s, p, reason)
    \/ \E s \in SpecSwitches : HandleMultipartReplyPortDesc(s)
    \/ \E rcv \in SpecSwitches, snd \in SpecSwitches, p \in PortNos, q \in PortNos :
          HandleTopologyDiscoveryPacketIn(rcv, p, snd, q)
    \/ \E link \in links : LinkTimeout(link)
    \/ \E s \in SpecSwitches : Stop(s)
    \/ \E s \in SpecSwitches, p \in PortNos, v \in VirtualSwitches :
          RegisterPortInterest(s, p, v)
    \/ \E s \in SpecSwitches, p \in PortNos, v \in VirtualSwitches :
          RemovePortInterest(s, p, v)

Spec == Init /\ [][Next]_vars

\* The tenant connections of the virtual switches
NextVS ==
    \/ \E s \in SpecSwitches : Accept(s)
    \/ \E s \in SpecSwitches : HandleFeaturesReply(s)
    \/ \E s \in SpecSwitches : HandleMultipartReplyPortDesc(s)
    \/ \E rcv \in SpecSwitches, snd \in SpecSwitches, p \in PortNos, q \in PortNos :
          HandleTopologyDiscoveryPacketIn(rcv, p, snd, q)
    \/ \E link \in links : LinkTimeout(link)
    \/ \E s \in SpecSwitches : Stop(s)
    \/ SliceStart
    \/ \E v \in VirtualSwitches, error \in BOOLEAN : HandleConnect(v, error)

SpecVS == Init /\ [][NextVS]_vars

\* The sessions of the physical switches: two sessions may be with the same
\* switch (a switch that connects again while its old session is not yet
\* torn down), so device gives any of the datapath ids to every session
Dpids == {DpidOf(s) : s \in SwitchIds}

InitSession ==
    /\ TopoInit({}, SpecSwitches)
    /\ device \in [SwitchIds -> Dpids]
    /\ RewriteIdle
    /\ XidInit
    /\ UnitIdle

NextSession ==
    \/ \E s \in SpecSwitches : Accept(s)
    \/ \E s \in SpecSwitches : HandleFeaturesReply(s)
    \/ \E s \in SpecSwitches : HandleMultipartReplyPortDesc(s)
    \/ \E s \in SpecSwitches : send_topology_discovery_message(s)
    \/ \E s \in SpecSwitches : Stop(s)

SpecSession == InitSession /\ [][NextSession]_vars

\* The rewriting of the flow-mods of the tenants
InitRewrite ==
    /\ TopoInit(Line(NumSwitches), SpecSwitches)
    /\ OwnDevices
    /\ XidInit
    /\ UnitIdle
    /\ num_virtual_switch_bits \in 1..MaxVirtualSwitchBits
    /\ old_instruction_set \in TenantInstructionSets(num_virtual_switch_bits)
    /\ rewritten = NotRewritten

NextRewrite == RewriteInstructionSet

SpecRewrite == InitRewrite /\ [][NextRewrite]_vars

\* The xid translation of one physical switch
NextXid ==
    \/ \E x \in TenantXids, v \in VirtualSwitches : SendRequestMessage([xid |-> x], v)
    \/ \E v \in VirtualSwitches : DestroyVirtualSwitch(v)
    \/ \E xid \in 0..MaxXid : ReceiveReply(xid)
    \/ HandleReply

SpecXid == Init /\ [][NextXid]_vars

(***************************************************************************)
(* Properties: dynamic port rules                                          *)
(***************************************************************************)
\* The virtual switches recorded as interested in port p of switch s
InterestIn(s, p) == IF p \in DOMAIN needed_ports[s] THEN needed_ports[s][p] ELSE {}

\* The rule a port should have: a link rule on a port with a link, a host
\* rule on a port without link that exactly one virtual switch is interested
\* in, a drop rule on every other port
DesiredState(s, p) ==
    IF ports[s][p].link # NoLink THEN "link_rule"
    ELSE IF \E v \in VirtualSwitches : InterestIn(s, p) = {v} THEN "host_rule"
    ELSE "drop_rule"

\* C1: once the topology events (port add / modify / delete, link discovery,
\* link expiry, switch connect / disconnect) are processed, the recorded
\* rule state of every port of every physical switch is its desired state,
\* and so no port is left in no_rule.  A switch whose port interest changed
\* since its last update_dynamic_rules is not covered: register and remove
\* of port interest are no topology events and run no update.
C1_RulesMatchDesired ==
    \A s \in alive : s \notin interest_changed =>
        \A p \in DOMAIN ports[s] : ports[s][p].state = DesiredState(s, p)

\* C1 witness: after the events, one switch has a port with a link in
\* link_rule and a host port two virtual switches are interested in in
\* drop_rule, and another switch has a host port in host_rule
C1_Witness ==
    \E s \in alive, t \in alive :
        /\ s # t /\ interest_changed = {}
        /\ \E p \in DOMAIN ports[s] :
              ports[s][p].link # NoLink /\ ports[s][p].state = "link_rule"
        /\ \E p \in DOMAIN ports[s] :
              /\ ports[s][p].link = NoLink /\ Cardinality(InterestIn(s, p)) = 2
              /\ ports[s][p].state = "drop_rule"
        /\ \E p \in DOMAIN ports[t] :
              /\ ports[t][p].link = NoLink /\ Cardinality(InterestIn(t, p)) = 1
              /\ ports[t][p].state = "host_rule"

(***************************************************************************)
(* Properties: tenant connections                                          *)
(***************************************************************************)
\* The physical switches named in the port map of virtual switch v are all
\* registered and reach one another over finite distances
AllOnlineAndReachable(v) ==
    LET dpids == {VSPorts(v)[vp].datapath_id : vp \in DOMAIN VSPorts(v)}
    IN /\ \A d \in dpids :
            /\ d \in DOMAIN identified
            /\ identified[d] \in alive
            /\ state[identified[d]] = "registered"
       /\ \A d \in dpids, e \in dpids :
            (d \in DOMAIN identified /\ e \in DOMAIN identified) =>
                get_distance(dist[identified[d]], identified[e]) < infinite

\* C2: a virtual switch with an open, pending or established tenant
\* connection has all the physical switches of its port map registered and
\* mutually reachable.
C2_ConnectedOnlyWhenReachable ==
    \A v \in VirtualSwitches :
        (socket_open[v] \/ connecting[v] \/ session[v]) => AllOnlineAndReachable(v)

(***************************************************************************)
(* Properties: routes                                                      *)
(***************************************************************************)
\* The switches one live link away from s: a DiscoveredLink is live while
\* its liveness timer runs, and joins its two endpoint switches
Neighbours(s) ==
    {o \in alive \ {s} : \E l \in links : (l.a = s /\ l.b = o) \/ (l.a = o /\ l.b = s)}

\* The switches within n live links of the switches in from
RECURSIVE Within(_, _)
Within(from, n) ==
    IF n = 0 THEN from
    ELSE Within(from \cup UNION {Neighbours(s) : s \in from}, n - 1)

PathExists(s, t) == t \in Within({s}, Cardinality(SwitchIds))

\* The switch reached from s by following the next-hop port towards t
\* across its link d times; 0 when a hop has no next-hop port or no link
RECURSIVE Follow(_, _, _)
Follow(s, t, d) ==
    IF d = 0 THEN s
    ELSE IF t \notin DOMAIN next[s] \/ next[s][t] \notin DOMAIN ports[s] THEN 0
    ELSE LET link == ports[s][next[s][t]].link
         IN IF link = NoLink \/ get_other_switch_id(link, s) \notin alive THEN 0
            ELSE Follow(get_other_switch_id(link, s), t, d - 1)

Registered == {s \in alive : state[s] = "registered"}

\* C3: after every recalculation of the routes, for registered switches s
\* and t, a finite dist[s][t] = d means that following the next-hop ports
\* towards t across the live links d times from s arrives at t, and dist[s][t]
\* is infinite (no entry) exactly when no path of live links joins s and t.
C3_RoutesFollowLiveLinks ==
    routes_current =>
        \A s \in Registered, t \in Registered :
            /\ get_distance(dist[s], t) < infinite =>
                   Follow(s, t, get_distance(dist[s], t)) = t
            /\ (get_distance(dist[s], t) >= infinite) = ~PathExists(s, t)
            /\ (t \notin DOMAIN dist[s]) = ~PathExists(s, t)

\* C4: update_dynamic_rules has run on every switch since the routes last
\* changed, so for every switch s and every other registered switch o the
\* installed next hop current_next[o] is the wanted next hop next[o]: both
\* absent, or both present and equal.
C4_CurrentNextIsNext ==
    \A s \in alive : \A o \in Registered \ {s} :
        /\ (o \in DOMAIN current_next[s]) = (o \in DOMAIN next[s])
        /\ (o \in DOMAIN next[s] /\ o \in DOMAIN current_next[s]) =>
               current_next[s][o] = next[s][o]

(***************************************************************************)
(* Properties: xid translation                                             *)
(***************************************************************************)
\* C5: the xid_map entry under the translated xid of a forwarded request
\* holds the tenant's original xid and the virtual switch the request came
\* from, and a reply is forwarded only to that virtual switch, under that
\* original xid.
C5_XidMapHoldsOriginal ==
    /\ \A xid \in DOMAIN xid_map :
          /\ xid \in DOMAIN requests
          /\ xid_map[xid].original_xid = requests[xid].original_xid
          /\ xid_map[xid].virtual_switch = requests[xid].virtual_switch
    /\ \A message \in forwarded :
          \E xid \in DOMAIN requests :
              /\ message.to = requests[xid].virtual_switch
              /\ message.xid = requests[xid].original_xid

\* The reply has an xid_map entry whose virtual switch still exists
Solicited(xid) == xid \in DOMAIN xid_map /\ xid_map[xid].virtual_switch \in virtual_switches

Has(type) == type \in DOMAIN old_instruction_set

\* The two instruction sets rewrite_instruction_set has filled
Rewritten == {rewritten.instruction_set_with_output, rewritten.instruction_set_without_output}

\* The write-metadata of a rewritten instruction set; one that writes nothing
\* when the set has none
EmittedMetadata(set) ==
    IF "OFPIT_WRITE_METADATA" \in DOMAIN set THEN set["OFPIT_WRITE_METADATA"]
    ELSE WriteMetadata({}, {})

\* The n highest bits of the metadata register
TopBits(n) == {b \in 0..(MetadataWidth - 1) : b >= MetadataWidth - n}

\* A 64-bit word shifted left by n: the bits shifted past the top are lost
Shifted(word, n) == {b + n : b \in word} \cap (0..(MetadataWidth - 1))

\* C7: a tenant write-metadata with one of the top 1+K mask bits set is
\* rejected; otherwise the write-metadata emitted in both rewritten sets has
\* metadata and mask equal to the tenant's shifted left by 1+K.
C7_MetadataShifted ==
    (rewritten.done /\ Has("OFPIT_WRITE_METADATA")) =>
        LET tenant == old_instruction_set["OFPIT_WRITE_METADATA"]
            n == 1 + num_virtual_switch_bits
        IN IF tenant.metadata_mask \cap TopBits(n) # {}
           THEN ~rewritten.ok
           ELSE rewritten.ok =>
                \A set \in Rewritten :
                    /\ "OFPIT_WRITE_METADATA" \in DOMAIN set
                    /\ EmittedMetadata(set).metadata = Shifted(tenant.metadata, n)
                    /\ EmittedMetadata(set).metadata_mask = Shifted(tenant.metadata_mask, n)

\* C7, amended: a tenant write-metadata with one of the top 1+K mask bits
\* set is rejected; otherwise the write-metadata emitted in both rewritten
\* sets equals, above bit 0, the tenant's metadata and mask shifted left by
\* 1+K, so no tenant bit lands on bit 0 or on the virtual-switch id bits;
\* bit 0 is the group-taken flag only, and no write-metadata is emitted
\* only when the tenant's mask is zero.
C7_MetadataShiftedAboveFlag ==
    (rewritten.done /\ Has("OFPIT_WRITE_METADATA")) =>
        LET tenant == old_instruction_set["OFPIT_WRITE_METADATA"]
            n == 1 + num_virtual_switch_bits
        IN IF tenant.metadata_mask \cap TopBits(n) # {}
           THEN ~rewritten.ok
           ELSE rewritten.ok =>
                \A set \in Rewritten :
                    IF "OFPIT_WRITE_METADATA" \in DOMAIN set
                    THEN LET emitted == set["OFPIT_WRITE_METADATA"]
                         IN /\ emitted.metadata \ {0} = Shifted(tenant.metadata, n)
                            /\ emitted.metadata_mask \ {0} = Shifted(tenant.metadata_mask, n)
                            /\ emitted.metadata \cap (1..num_virtual_switch_bits) = {}
                            /\ emitted.metadata_mask \cap (1..num_virtual_switch_bits) = {}
                    ELSE tenant.metadata_mask = {}

\* C7 witness: a flow-mod is rewritten whose write-metadata sets bit 0 and
\* the highest bit that is not shifted out, next to write-actions with a
\* group action
C7_Witness ==
    /\ rewritten.done /\ rewritten.ok
    /\ Has("OFPIT_WRITE_METADATA") /\ Has("OFPIT_WRITE_ACTIONS")
    /\ old_instruction_set["OFPIT_WRITE_METADATA"].metadata_mask =
           {0, MetadataWidth - num_virtual_switch_bits - 2}
    /\ old_instruction_set["OFPIT_WRITE_METADATA"].metadata =
           {0, MetadataWidth - num_virtual_switch_bits - 2}
    /\ \E a \in old_instruction_set["OFPIT_WRITE_ACTIONS"].actions : a.type = "OFPAT_GROUP"
    /\ \A set \in Rewritten :
           EmittedMetadata(set).metadata_mask =
               {0, 1 + num_virtual_switch_bits, MetadataWidth - 1}

\* C8: a tenant goto-table T is rewritten to table T+2, which is never table
\* 0 or table 1, for every 8-bit T.
C8_GotoTableShifted ==
    (rewritten.done /\ rewritten.ok /\ Has("OFPIT_GOTO_TABLE")) =>
        \A set \in Rewritten :
            /\ "OFPIT_GOTO_TABLE" \in DOMAIN set
            /\ set["OFPIT_GOTO_TABLE"].table_id =
                   old_instruction_set["OFPIT_GOTO_TABLE"].table_id + 2
            /\ set["OFPIT_GOTO_TABLE"].table_id \notin {0, 1}

UnsupportedTypes == {"OFPIT_METER", "OFPIT_EXPERIMENTER"}

\* The flow-mod has a set-queue action in its write-actions or apply-actions
HasSetQueue ==
    \/ /\ Has("OFPIT_WRITE_ACTIONS")
       /\ \E a \in old_instruction_set["OFPIT_WRITE_ACTIONS"].actions :
              a.type = "OFPAT_SET_QUEUE"
    \/ /\ Has("OFPIT_APPLY_ACTIONS")
       /\ \E i \in DOMAIN old_instruction_set["OFPIT_APPLY_ACTIONS"].actions :
              old_instruction_set["OFPIT_APPLY_ACTIONS"].actions[i].type = "OFPAT_SET_QUEUE"

\* C9: a flow-mod with a meter or an experimenter instruction, or with a
\* set-queue action in its write-actions or apply-actions, is rejected:
\* rewrite_instruction_set returns false.
C9_UnsupportedRejected ==
    (rewritten.done /\ ((\E type \in UnsupportedTypes : Has(type)) \/ HasSetQueue)) =>
        ~rewritten.ok

\* C9 witness: a flow-mod without meter and experimenter instruction, with
\* write-actions that hold a set-queue action next to an output action, has
\* been rejected
C9_Witness ==
    /\ rewritten.done /\ ~rewritten.ok
    /\ \A type \in UnsupportedTypes : ~Has(type)
    /\ Has("OFPIT_WRITE_ACTIONS") /\ ~Has("OFPIT_APPLY_ACTIONS")
    /\ {a.type : a \in old_instruction_set["OFPIT_WRITE_ACTIONS"].actions} =
           {"OFPAT_OUTPUT", "OFPAT_SET_QUEUE"}

\* The flow-mod has write-actions with a group action
HasGroup ==
    /\ Has("OFPIT_WRITE_ACTIONS")
    /\ \E a \in old_instruction_set["OFPIT_WRITE_ACTIONS"].actions : a.type = "OFPAT_GROUP"

Outputs(actions) == {a \in actions : a.type = "OFPAT_OUTPUT"}

\* The write-actions of a rewritten instruction set; none when it has no
\* write-actions instruction
WrittenActions(set) ==
    IF "OFPIT_WRITE_ACTIONS" \in DOMAIN set THEN set["OFPIT_WRITE_ACTIONS"].actions ELSE {}

\* C11: when the write-actions of an accepted tenant flow-mod hold an output
\* to virtual port v, no rewritten instruction set holds an output to the
\* raw tenant port number v, and the set with output holds a group action
\* (to the output group of the virtual port) in its place, next to the
\* group actions the tenant gave.
C11_OutputReplacedByGroup ==
    (rewritten.done /\ rewritten.ok /\ Has("OFPIT_WRITE_ACTIONS")) =>
        LET tenant == old_instruction_set["OFPIT_WRITE_ACTIONS"].actions
            with == WrittenActions(rewritten.instruction_set_with_output)
        IN Outputs(tenant) # {} =>
              /\ \A set \in Rewritten : Outputs(WrittenActions(set)) \cap Outputs(tenant) = {}
              /\ \E a \in with : a.type = "OFPAT_GROUP" /\ a \notin tenant

\* The actions of a list
ActionsOf(list) == {list[i] : i \in DOMAIN list}

\* The apply-actions of a rewritten instruction set; none when it has no
\* apply-actions instruction
AppliedActions(set) ==
    IF "OFPIT_APPLY_ACTIONS" \in DOMAIN set
    THEN ActionsOf(set["OFPIT_APPLY_ACTIONS"].actions)
    ELSE {}

\* The output and group actions among the given actions: the actions that
\* carry a port or group number of the tenant's numbering
Numbered(actions) == {a \in actions : a.type \in {"OFPAT_OUTPUT", "OFPAT_GROUP"}}

\* C12: the apply-actions of an accepted tenant flow-mod are rewritten so
\* that no output action with the tenant's port number and no group action
\* with the tenant's group number is left in the rewritten action list.
C12_ApplyActionsTranslated ==
    (rewritten.done /\ rewritten.ok /\ Has("OFPIT_APPLY_ACTIONS")) =>
        LET tenant == ActionsOf(old_instruction_set["OFPIT_APPLY_ACTIONS"].actions)
        IN \A set \in Rewritten : Numbered(AppliedActions(set)) \cap Numbered(tenant) = {}

(***************************************************************************)
(* Properties: the sessions of the physical switches                       *)
(***************************************************************************)
\* The positions of a log whose entry passes the test
Where(log, Test(_)) == {i \in DOMAIN log : Test(log[i])}

\* Every position of A precedes every position of B
Before(A, B) == \A i \in A, j \in B : i < j

IsMultipart(m, what) == m.type = "OFPT_MULTIPART_REQUEST" /\ m.what = what

\* An ADD flow-mod, a group-mod or a meter-mod
InstallsRule(m) ==
    \/ m.type = "OFPT_FLOW_MOD" /\ m.command = "OFPFC_ADD"
    \/ m.type \in {"OFPT_GROUP_MOD", "OFPT_METER_MOD"}

\* C13: start enqueues, in this order, the features request, the multipart
\* requests for the meter features, the group features and the port
\* description, one flow-mod DELETE for all tables, one barrier request,
\* then the static rules, then the dynamic rules, and schedules the first
\* topology discovery message after all of them; no ADD flow-mod, group-mod
\* or meter-mod precedes the barrier.
C13_StartOrder ==
    \A s \in alive :
        LET log == start_log[s]
            features == Where(log, LAMBDA m : m.type = "OFPT_FEATURES_REQUEST")
            meter == Where(log, LAMBDA m : IsMultipart(m, "OFPMP_METER_FEATURES"))
            group == Where(log, LAMBDA m : IsMultipart(m, "OFPMP_GROUP_FEATURES"))
            port == Where(log, LAMBDA m : IsMultipart(m, "OFPMP_PORT_DESC"))
            delete == Where(log, LAMBDA m : /\ m.type = "OFPT_FLOW_MOD"
                                            /\ m.command = "OFPFC_DELETE"
                                            /\ m.table_id = OFPTT_ALL)
            barrier == Where(log, LAMBDA m : m.type = "OFPT_BARRIER_REQUEST")
            static == Where(log, LAMBDA m : m.by = "create_static_rules")
            dynamic == Where(log, LAMBDA m : m.by = "update_dynamic_rules")
            scheduled == Where(log, LAMBDA m : m.type = "schedule_topology_discovery_message")
        IN /\ \A once \in {features, meter, group, port, delete, barrier, scheduled} :
                  Cardinality(once) = 1
           /\ Before(features, meter) /\ Before(meter, group) /\ Before(group, port)
           /\ Before(port, delete) /\ Before(delete, barrier)
           /\ static # {} /\ Before(barrier, static)
           /\ Before(static, dynamic)
           /\ scheduled = {Len(log)}
           /\ Before(barrier, Where(log, InstallsRule))

\* C13 witness: two switches have started, and both have their static rules
\* enqueued and their first topology discovery message scheduled
C13_Witness ==
    /\ alive = SwitchIds
    /\ \A s \in alive :
          /\ topology_discovery_timer[s]
          /\ \E i \in DOMAIN start_log[s] : start_log[s][i].type = "OFPT_GROUP_MOD"

\* The switches found in the hypervisor's registry by datapath id
FoundByDatapathId == {identified[d] : d \in DOMAIN identified}

\* The registry by datapath id holds exactly the registered switches
RegisteredIffFound ==
    \A s \in SwitchIds : (state[s] = "registered") <=> (s \in FoundByDatapathId)

\* C14: handling a features reply makes the switch registered, registers
\* its datapath id with its internal id and recalculates the routes (the
\* switch then knows its distance to itself); and in every state a switch
\* is found in the registry by datapath id exactly when it is registered.
C14_RegisteredIffInRegistry ==
    /\ []RegisteredIffFound
    /\ [][\A s \in SwitchIds :
            (state[s] = "unregistered" /\ state'[s] = "registered") =>
                /\ datapath_id'[s] \in DOMAIN identified'
                /\ identified'[datapath_id'[s]] = s
                /\ get_distance(dist'[s], s) = 0]_vars

\* The switches whose session has been stopped
Stopped == {s \in accepted : Head(start_log[s]).by = "stop"}

LinksOf(s) == {ports[s][p].link : p \in DOMAIN ports[s]} \ {NoLink}

\* The virtual switches with a virtual port on the registered switch s
VirtualSwitchesOn(s) ==
    {v \in VirtualSwitches :
        /\ state[s] = "registered"
        /\ \E vp \in DOMAIN VSPorts(v) : VSPorts(v)[vp].datapath_id = datapath_id[s]}

\* C16: the step in which a physical switch stops stops every discovered
\* link on its ports (no port of any switch keeps such a link) and takes
\* every virtual switch with a port on the stopped switch offline: it is
\* connected no longer and its tenant socket is closed.
C16_StopTakesOffline ==
    [][\A s \in SwitchIds : (s \in alive /\ s \notin alive') =>
          /\ links' \cap LinksOf(s) = {}
          /\ \A t \in SwitchIds : \A p \in DOMAIN ports'[t] : ports'[t][p].link \notin LinksOf(s)
          /\ \A v \in VirtualSwitchesOn(s) : ~session'[v] /\ ~socket_open'[v]]_vars

\* Port p of switch s is an endpoint of link L
EndpointOf(L, s, p) == (L.a = s /\ L.pa = p) \/ (L.b = s /\ L.pb = p)

\* The peer port named by L is there and has L as its link
PeerHasLink(L, s, p) ==
    LET t == IF L.a = s /\ L.pa = p THEN L.b ELSE L.a
        q == IF L.a = s /\ L.pa = p THEN L.pb ELSE L.pa
    IN q \in DOMAIN ports[t] /\ ports[t][q].link = L

\* C17: in every reachable state the links are symmetric: when port p of
\* switch s has the link L, the peer port that L names on the other switch
\* has the link L as well; so too after the port-status DELETE of an endpoint
\* port, after a physical switch stops and after a link expires.
C17_LinksSymmetric ==
    \A s \in SwitchIds : \A p \in DOMAIN ports[s] :
        ports[s][p].link # NoLink =>
            /\ EndpointOf(ports[s][p].link, s, p)
            /\ PeerHasLink(ports[s][p].link, s, p)

(***************************************************************************)
(* Link loss                                                               *)
(***************************************************************************)
\* The probes of a link stop being received: no packet-in of a probe can
\* arrive across c any more, so nothing restarts the timer of its link
CutCable(c) ==
    /\ c \in cables
    /\ cables' = cables \ {c}
    /\ UNCHANGED <<tenantVars, sessVars, hosts, device, accepted, alive, identified, links,
                   slice_started, psVars, vsVars, histVars>>

NextLoss ==
    \/ \E s \in SpecSwitches : Accept(s)
    \/ \E s \in SpecSwitches : HandleFeaturesReply(s)
    \/ \E s \in SpecSwitches : HandleMultipartReplyPortDesc(s)
    \/ \E rcv \in SpecSwitches, snd \in SpecSwitches, p \in PortNos, q \in PortNos :
          HandleTopologyDiscoveryPacketIn(rcv, p, snd, q)
    \/ \E link \in links : LinkTimeout(link)
    \/ SliceStart
    \/ \E v \in VirtualSwitches, error \in BOOLEAN : HandleConnect(v, error)
    \/ \E c \in cables : CutCable(c)

\* A link that receives no probe any more leaves the discovered links: of
\* the steps of NextLoss only LinkTimeout takes a link away
LinkExpires == \E link \in links \ cables : links' = links \ {link}

\* The timer of a link that receives no probe any more runs out: the
\* DiscoveredLink's deadline_timer is restarted only by a received probe
SpecLoss ==
    /\ Init
    /\ [][NextLoss]_vars
    /\ WF_links(LinkExpires)

\* No port has the link
Cleared(link) ==
    \A s \in SwitchIds : \A p \in DOMAIN ports[s] : ports[s][p].link # link

\* The virtual switches with a port on both ends of the link
Spanning(link) ==
    {v \in VirtualSwitches :
        \A s \in {link.a, link.b} :
            \E vp \in DOMAIN VSPorts(v) : VSPorts(v)[vp].datapath_id = DpidOf(s)}

\* C18: two switches are joined by one discovered link and a connected
\* virtual switch spans both; once no probe is received any more the timer
\* of the link eventually expires, both endpoint ports clear their link, the
\* routes are recomputed, and the virtual switch eventually is connected no
\* longer and has closed its tenant socket.
C18_LinkLoss ==
    \A link \in Line(NumSwitches) : \A v \in Spanning(link) :
        (link \in links /\ link \notin cables /\ session[v])
            ~> (/\ link \notin links
                /\ Cleared(link)
                /\ routes_current
                /\ ~session[v]
                /\ ~socket_open[v])

\* C19: when an outbound connect of a virtual switch fails, the virtual
\* switch does not start the next connect attempt at once: the step in which
\* handle_connect handles the completion of a connect (completed changes)
\* starts no connect attempt (attempts stays), which is left to the expiry
\* of a back-off timer.
C19_BackoffBeforeRetry ==
    [][\A v \in VirtualSwitches :
          completed'[v] # completed[v] => attempts'[v] = attempts[v]]_vars

(***************************************************************************)
(* A controller that refuses every connection                              *)
(***************************************************************************)
NextRefused ==
    \/ \E s \in SpecSwitches : Accept(s)
    \/ \E s \in SpecSwitches : HandleFeaturesReply(s)
    \/ \E s \in SpecSwitches : HandleMultipartReplyPortDesc(s)
    \/ \E rcv \in SpecSwitches, snd \in SpecSwitches, p \in PortNos, q \in PortNos :
          HandleTopologyDiscoveryPacketIn(rcv, p, snd, q)
    \/ \E link \in links : LinkTimeout(link)
    \/ \E s \in SpecSwitches : Stop(s)
    \/ SliceStart
    \/ \E v \in VirtualSwitches : HandleConnect(v, TRUE)

\* Every async_connect completes: the io_service calls its handler
SpecRefused ==
    /\ Init
    /\ [][NextRefused]_vars
    /\ \A v \in VirtualSwitches : WF_vars(HandleConnect(v, TRUE))

\* What the model keeps of the messages sent to the physical switches: the
\* rules installed, the start-up messages and the forwarded tenant requests
SubstrateRules == <<ports, current_next, start_log, next_xid, requests, rewritten>>

\* C20: while the controller refuses every connection a virtual switch
\* that is trying to connect keeps retrying for ever (whatever the number of
\* its attempts is, another attempt follows), it never is connected
\* (OpenflowConnection::start is never called for it), and the steps in which
\* its connects complete send no flow-mod, group-mod or meter-mod to any
\* physical switch.
C20_RefusedRetriesForever ==
    /\ \A v \in VirtualSwitches : \A n \in 0..(MaxConnects - 1) :
          (connecting[v] /\ attempts[v] = n) ~> (attempts[v] # n)
    /\ [](\A v \in VirtualSwitches : ~session[v])
    /\ [][(\E v \in VirtualSwitches : completed'[v] # completed[v])
            => UNCHANGED SubstrateRules]_vars

\* A virtual switch whose connect was refused is trying again
C20_Witness ==
    \E v \in VirtualSwitches :
        completed[v] = MaxConnects - 1 /\ connecting[v] /\ socket_open[v] /\ ~session[v]

(***************************************************************************)
(* A virtual switch that is stopped                                        *)
(***************************************************************************)
\* VirtualSwitch::stop called from outside check_online (the method is
\* public): with the socket open, OpenflowConnection::stop() and
\* socket.close().  An async_connect that is outstanding stays outstanding:
\* its handler is still to be called.
VirtualSwitchStop(v) ==
    /\ socket_open[v]
    /\ socket_open' = [socket_open EXCEPT ![v] = FALSE]
    /\ session' = [session EXCEPT ![v] = FALSE]
    /\ UNCHANGED <<connecting, attempts, completed>>
    /\ UNCHANGED <<tenantVars, sessVars, hvVars, psVars, histVars>>

NextStopVS ==
    \/ \E s \in SpecSwitches : Accept(s)
    \/ \E s \in SpecSwitches : HandleFeaturesReply(s)
    \/ SliceStart
    \/ \E v \in VirtualSwitches, error \in BOOLEAN : HandleConnect(v, error)
    \/ \E v \in VirtualSwitches : VirtualSwitchStop(v)

SpecStopVS == Init /\ [][NextStopVS]_vars

\* The connect of v is pending on a socket that stop() has closed
StoppedWhilePending(v) == connecting[v] /\ ~socket_open[v]

\* C21: when a virtual switch was stopped while its outbound connect was
\* pending, the late connect callback is discarded: the step in which it
\* runs neither starts the OpenFlow session nor starts a new connect
\* attempt, and the virtual switch stays down (socket closed).
C21_LateConnectDiscarded ==
    [][\A v \in VirtualSwitches :
          (StoppedWhilePending(v) /\ completed'[v] # completed[v]) =>
              /\ ~session'[v]
              /\ attempts'[v] = attempts[v]
              /\ ~socket_open'[v]]_vars

(***************************************************************************)
(* The dynamic rules of one physical switch                                *)
(***************************************************************************)
\* The ports of the switch and the link that is found on a port
RulePorts == {1, 2}
LinkAt(p) == [a |-> 1, pa |-> p, b |-> 2, pb |-> p]

\* A flow-mod of update_dynamic_rules with its contents: the match (port is
\* the in-port or the port of the VLAN tag; tag is the virtual switch whose
\* slice the VLAN tag of a shared link rule names) and the instructions
\* (metadata virtual switch, output port, goto table; 0 for none)
RuleFlowMod(command, table_id, priority, port, tag, virtual_switch, output, goto) ==
    [command |-> command, table_id |-> table_id, priority |-> priority, port |-> port,
     tag |-> tag, virtual_switch |-> virtual_switch, output |-> output, goto |-> goto]

\* update_dynamic_rules with every flow-mod of a known port sent as MODIFY
DynamicFlowMods_always_modify(prts, needed) ==
    Concat(Ascending(DOMAIN prts),
           [port_no \in DOMAIN prts |->
               LET cur == current_state(prts[port_no], needed, port_no)
               IN <<RuleFlowMod("OFPFC_MODIFY", 0, 10, port_no, 0, 0, 0, 0),
                    RuleFlowMod("OFPFC_MODIFY", 1, 10, port_no, 0, 0, port_no, 0)>>])

\* PhysicalSwitch::update_dynamic_rules: the flow-mods of its loop over the
\* ports, in ascending port order, with their contents
DynamicFlowMods(prts, needed) ==
    Concat(Ascending(DOMAIN prts),
           [port_no \in DOMAIN prts |->
               LET prev_state == prts[port_no].state
                   cur == current_state(prts[port_no], needed, port_no)
                   command == IF prev_state = "no_rule" THEN "OFPFC_ADD" ELSE "OFPFC_MODIFY"
                   interested == IF port_no \in DOMAIN needed THEN needed[port_no] ELSE {}
                   virtual_switch_id == IF cur = "host_rule"
                                        THEN CHOOSE v \in interested : TRUE
                                        ELSE 0
                   flowmod_0 == RuleFlowMod(command, 0, 10, port_no, 0, virtual_switch_id, 0,
                                    IF cur = "link_rule" THEN 1
                                    ELSE IF cur = "host_rule" THEN 2 ELSE 0)
                   \* the output action is added whatever the state is
                   flowmod_1 == RuleFlowMod(command, 1, 10, port_no, 0, 0, port_no, 0)
                   shared == [v \in interested |->
                                 IF prev_state # "link_rule" /\ cur = "link_rule"
                                 THEN <<RuleFlowMod("OFPFC_ADD", 1, 30, port_no, v, v, 0, 2)>>
                                 ELSE IF prev_state = "link_rule" /\ cur # "link_rule"
                                 THEN <<RuleFlowMod("OFPFC_DELETE", 1, 30, port_no, v, v, 0, 2)>>
                                 ELSE <<>>]
               IN IF prev_state # "no_rule" /\ prev_state = cur THEN <<>>
                  ELSE <<flowmod_0, flowmod_1>> \o Concat(Ascending(interested), shared)])

\* The flow table of the switch: what a flow-mod matches on, and the rule
\* it installs
RuleKey(m) == <<m.table_id, m.priority, m.port, m.tag>>
RuleOf(m) ==
    [table_id |-> m.table_id, priority |-> m.priority, port |-> m.port, tag |-> m.tag,
     virtual_switch |-> m.virtual_switch, output |-> m.output, goto |-> m.goto]

\* The switch carries out a flow-mod: ADD installs the rule in place of one
\* with the same match and priority, MODIFY replaces the instructions of
\* the rule that is there, DELETE removes it
ApplyFlowMod(table, m) ==
    IF m.command = "OFPFC_ADD"
    THEN {r \in table : RuleKey(r) # RuleKey(m)} \cup {RuleOf(m)}
    ELSE IF m.command = "OFPFC_MODIFY"
    THEN {IF RuleKey(r) = RuleKey(m) THEN RuleOf(m) ELSE r : r \in table}
    ELSE {r \in table : RuleKey(r) # RuleKey(m)}

RECURSIVE ApplyFlowMods(_, _)
ApplyFlowMods(table, mods) ==
    IF mods = <<>> THEN table
    ELSE ApplyFlowMods(ApplyFlowMod(table, Head(mods)), Tail(mods))

\* update_dynamic_rules runs on the port map P
RuleUpdate(P) ==
    /\ rule_sent' = DynamicFlowMods(P, rule_needed)
    /\ rule_ports' = update_dynamic_rules(P, rule_needed, EmptyMap).ports
    /\ rule_table' = ApplyFlowMods(rule_table, DynamicFlowMods(P, rule_needed))
    /\ rule_fresh' = TRUE
    /\ UNCHANGED rule_needed

\* PhysicalSwitch::handle_port_status: handle_port, then update_dynamic_rules
RulePortStatus(port_no, reason) ==
    /\ RuleUpdate(handle_port(rule_ports, port_no, reason))
    /\ UNCHANGED notRuleVars

\* A DiscoveredLink is created on the port: calculate_routes, which calls
\* update_dynamic_rules
RuleLinkFound(port_no) ==
    /\ port_no \in DOMAIN rule_ports
    /\ rule_ports[port_no].link = NoLink
    /\ RuleUpdate([rule_ports EXCEPT ![port_no].link = LinkAt(port_no)])
    /\ UNCHANGED notRuleVars

\* DiscoveredLink::stop on the link of the port, then calculate_routes
RuleLinkLost(port_no) ==
    /\ port_no \in DOMAIN rule_ports
    /\ rule_ports[port_no].link # NoLink
    /\ RuleUpdate([rule_ports EXCEPT ![port_no].link = NoLink])
    /\ UNCHANGED notRuleVars

\* calculate_routes after a change elsewhere in the network
RuleRecalculate ==
    /\ RuleUpdate(rule_ports)
    /\ UNCHANGED notRuleVars

\* PhysicalSwitch::register_port_interest
RuleRegisterPortInterest(port, v) ==
    /\ v \notin (IF port \in DOMAIN rule_needed THEN rule_needed[port] ELSE {})
    /\ rule_needed' = Put(rule_needed, port,
                          (IF port \in DOMAIN rule_needed THEN rule_needed[port] ELSE {}) \cup {v})
    /\ rule_fresh' = FALSE
    /\ UNCHANGED <<rule_ports, rule_table, rule_sent>>
    /\ UNCHANGED notRuleVars

\* PhysicalSwitch::remove_port_interest
RuleRemovePortInterest(port, v) ==
    /\ port \in DOMAIN rule_needed
    /\ v \in rule_needed[port]
    /\ rule_needed' = [rule_needed EXCEPT ![port] = @ \ {v}]
    /\ rule_fresh' = FALSE
    /\ UNCHANGED <<rule_ports, rule_table, rule_sent>>
    /\ UNCHANGED notRuleVars

NextRules ==
    \/ \E p \in RulePorts, reason \in {"OFPPR_ADD", "OFPPR_DELETE", "OFPPR_MODIFY"} :
          RulePortStatus(p, reason)
    \/ \E p \in RulePorts : RuleLinkFound(p)
    \/ \E p \in RulePorts : RuleLinkLost(p)
    \/ RuleRecalculate
    \/ \E p \in RulePorts, v \in VirtualSwitches : RuleRegisterPortInterest(p, v)
    \/ \E p \in RulePorts, v \in VirtualSwitches : RuleRemovePortInterest(p, v)

SpecRules == Init /\ [][NextRules]_vars

\* The virtual switches with a shared link rule (table 1, priority 30) on
\* port p in the flow table
SharedLinkRules(p) ==
    {r.virtual_switch : r \in {x \in rule_table :
                                  x.table_id = 1 /\ x.priority = 30 /\ x.port = p}}

\* C22: after any sequence of link changes and register/remove of port
\* interest followed by update_dynamic_rules, the shared link rules
\* installed for a port p are one rule for each virtual switch of
\* needed_ports[p] when p has a link, and none when p has no link.
C22_SharedLinkRulesMatchInterest ==
    rule_fresh =>
        \A p \in DOMAIN rule_ports :
            SharedLinkRules(p) =
                IF rule_ports[p].link # NoLink /\ p \in DOMAIN rule_needed
                THEN rule_needed[p]
                ELSE {}

\* The rules of table 1 that output to port p
LocalEgressRules(p) == {r \in rule_table : r.table_id = 1 /\ r.output = p}

\* C23: whenever update_dynamic_rules has brought a port to the state
\* drop_rule, no rule of table 1 that outputs to that port is installed:
\* none is added when the port is first seen as drop, and a host or link
\* egress rule installed before is in effect no longer.
C23_NoEgressRuleForDropPort ==
    \A p \in DOMAIN rule_ports :
        rule_ports[p].state = "drop_rule" => LocalEgressRules(p) = {}

\* The commands of the table-0 in-port flow-mods for port p among mods
InPortCommands(mods, p) ==
    LET about(m) == m.table_id = 0 /\ m.priority = 10 /\ m.port = p
        chosen == SelectSeq(mods, about)
    IN [i \in DOMAIN chosen |-> chosen[i].command]

\* C30: for each port, update_dynamic_rules sends the table-0 in-port
\* flow-mod with the command ADD when the recorded state is no_rule, with
\* MODIFY when the recorded state differs from the desired state, and sends
\* no flow-mod for the port when the recorded state is the desired state.
C30_CommandByRecordedState ==
    [][rule_fresh' =>
          \A p \in DOMAIN rule_ports' :
              LET prev_state == IF p \in DOMAIN rule_ports THEN rule_ports[p].state
                                ELSE "no_rule"
                  desired == current_state(rule_ports'[p], rule_needed, p)
                  commands == InPortCommands(rule_sent', p)
              IN /\ prev_state = "no_rule" => commands = <<"OFPFC_ADD">>
                 /\ (prev_state # "no_rule" /\ prev_state # desired) =>
                        commands = <<"OFPFC_MODIFY">>
                 /\ (prev_state # "no_rule" /\ prev_state = desired) => commands = <<>>
      ]_vars

\* The last update_dynamic_rules modified the rule of one port and sent
\* nothing for another port, whose rule was installed before
C30_Witness ==
    /\ rule_fresh
    /\ \E p \in DOMAIN rule_ports, q \in DOMAIN rule_ports :
          /\ InPortCommands(rule_sent, p) = <<"OFPFC_MODIFY">>
          /\ InPortCommands(rule_sent, q) = <<>>
          /\ rule_ports[q].state # "no_rule"

(***************************************************************************)
(* PhysicalSwitch::handle_port                                             *)
(***************************************************************************)
\* The switch whose ports are handled, its port numbers and the port data a
\* port-status message can carry
HpSwitch == 1
HpPorts == {Wiring.out, Wiring.host}
PortData == {"up", "down"}

\* VirtualSwitch::get_virtual_port_no: the virtual port that the port map of
\* virtual switch v has for the physical port; 0 when it has none
get_virtual_port_no(v, dpid, port_no) ==
    LET found == {vp \in DOMAIN VSPorts(v) :
                     VSPorts(v)[vp] = [datapath_id |-> dpid, port_number |-> port_no]}
    IN IF found = {} THEN 0 ELSE CHOOSE vp \in found : TRUE

\* The orders in which the loop over a std::set of shared_ptr can visit
\* the virtual switches of S (the set is ordered by address)
Orders(S) ==
    {order \in [1..Cardinality(S) -> S] :
        \A i \in 1..Cardinality(S), j \in 1..Cardinality(S) : order[i] = order[j] => i = j}

\* The loop of handle_port over the interested virtual switches: port.port_no
\* is overwritten with the rewritten number in every turn, so port_no is
\* the number the previous turn left behind
RECURSIVE ForwardPortStatus(_, _, _, _, _, _)
ForwardPortStatus(order, connected, dpid, port_no, port_data, reason) ==
    IF order = <<>> THEN <<>>
    ELSE IF Head(order) \notin connected
    THEN ForwardPortStatus(Tail(order), connected, dpid, port_no, port_data, reason)
    ELSE LET virtual_port_no == get_virtual_port_no(Head(order), dpid, port_no)
         IN <<[to |-> Head(order), reason |-> reason, port_no |-> virtual_port_no,
               port_data |-> port_data]>>
            \o ForwardPortStatus(Tail(order), connected, dpid, virtual_port_no, port_data, reason)

\* PhysicalSwitch::handle_port: the port map it leaves and the port-status
\* messages it sends to virtual switches, the loop running in the given order
handle_port_forwarding(prts, needed, connected, dpid, port, reason, order) ==
    LET known == port.port_no \in DOMAIN prts
    IN IF ~known /\ reason = "OFPPR_DELETE" THEN [ports |-> prts, sent |-> <<>>]
       ELSE [ports |->
                IF ~known
                THEN Put(prts, port.port_no,
                         [port_data |-> port.port_data, state |-> "no_rule"])
                ELSE IF reason = "OFPPR_DELETE" THEN Erase(prts, port.port_no)
                ELSE prts,
             sent |->
                IF port.port_no \notin DOMAIN needed THEN <<>>
                ELSE ForwardPortStatus(order, connected, dpid, port.port_no, port.port_data,
                        IF ~known THEN "OFPPR_ADD"
                        ELSE IF reason = "OFPPR_DELETE" THEN "OFPPR_DELETE"
                        ELSE "OFPPR_MODIFY")]

\* handle_port is called with a port and a reason
HandlePort(port_no, port_data, reason) ==
    /\ hp_in' = [port_no |-> port_no, port_data |-> port_data, reason |-> reason]
    /\ \E order \in Orders(IF port_no \in DOMAIN hp_needed THEN hp_needed[port_no] ELSE {}) :
          LET r == handle_port_forwarding(hp_ports, hp_needed, hp_connected, DpidOf(HpSwitch),
                                          [port_no |-> port_no, port_data |-> port_data],
                                          reason, order)
          IN /\ hp_ports' = r.ports
             /\ hp_sent' = r.sent
    /\ UNCHANGED <<hp_needed, hp_connected>>
    /\ UNCHANGED notPortVars

\* Any of the virtual switches are connected, and any of those that have
\* the port in their port map have registered their interest in it
InitPortStatus ==
    /\ BaseInit
    /\ RuleIdle /\ PacketInIdle /\ SendIdle /\ EchoIdle /\ FeaturesIdle /\ RouteUnitIdle
    /\ hp_ports = EmptyMap
    /\ hp_needed \in {Map(f) : f \in {g \in [HpPorts -> SUBSET VirtualSwitches] :
                          \A q \in HpPorts : g[q] \subseteq Interested(DpidOf(HpSwitch), q)}}
    /\ hp_connected \in SUBSET VirtualSwitches
    /\ hp_in = NoPortStatus
    /\ hp_sent = <<>>

NextPortStatus ==
    \E port_no \in HpPorts, port_data \in PortData,
       reason \in {"OFPPR_ADD", "OFPPR_DELETE", "OFPPR_MODIFY"} :
        HandlePort(port_no, port_data, reason)

SpecPortStatus == InitPortStatus /\ [][NextPortStatus]_vars

\* C24: handle_port with MODIFY for a port that is in the ports map puts the
\* port data of the message in place of the stored data; ADD or MODIFY for
\* an unknown port inserts the port with the rule state no_rule; DELETE for a
\* known port removes it; DELETE for an unknown port changes nothing and
\* forwards nothing.
C24_HandlePortUpdatesMap ==
    [][LET port_no == hp_in'.port_no
           reason == hp_in'.reason
           known == port_no \in DOMAIN hp_ports
       IN /\ (known /\ reason = "OFPPR_MODIFY") =>
                 /\ port_no \in DOMAIN hp_ports'
                 /\ hp_ports'[port_no].port_data = hp_in'.port_data
          /\ (~known /\ reason \in {"OFPPR_ADD", "OFPPR_MODIFY"}) =>
                 /\ port_no \in DOMAIN hp_ports'
                 /\ hp_ports'[port_no] = [port_data |-> hp_in'.port_data, state |-> "no_rule"]
          /\ (known /\ reason = "OFPPR_DELETE") => port_no \notin DOMAIN hp_ports'
          /\ (~known /\ reason = "OFPPR_DELETE") => (hp_ports' = hp_ports /\ hp_sent' = <<>>)
      ]_vars

\* The port-status messages among sent that went to virtual switch v
SentTo(sent, v) ==
    LET to_v(m) == m.to = v
    IN SelectSeq(sent, to_v)

\* C25: on a port-status for the physical port p, every virtual switch of
\* needed_ports[p] that is connected receives exactly one port-status, whose
\* port number is the virtual port number that virtual switch has for (this
\* datapath id, p), also when two or more virtual switches are interested in
\* p; a virtual switch that is not connected receives nothing.
C25_PortStatusForwardedRewritten ==
    [][LET p == hp_in'.port_no
           handled == ~(p \notin DOMAIN hp_ports /\ hp_in'.reason = "OFPPR_DELETE")
           interested == IF p \in DOMAIN hp_needed THEN hp_needed[p] ELSE {}
       IN \A v \in VirtualSwitches :
              IF handled /\ v \in interested /\ v \in hp_connected
              THEN /\ Len(SentTo(hp_sent', v)) = 1
                   /\ SentTo(hp_sent', v)[1].port_no =
                          get_virtual_port_no(v, DpidOf(HpSwitch), p)
              ELSE SentTo(hp_sent', v) = <<>>
      ]_vars

(***************************************************************************)
(* PhysicalSwitch::handle_packet_in                                        *)
(***************************************************************************)
\* The packet-ins a switch can send: tables 0 and 1 are the hypervisor's,
\* table 2 is the first table of the tenants; cookie 1 is the topology
\* discovery rule, 2 and 3 are the error detection rules; the metadata of
\* the packet names a virtual switch
PacketInTables == {0, 1, 2}
HypervisorTables == {0, 1}
PacketInCookies == {1, 2, 3}

\* PhysicalSwitch::handle_packet_in: whether the packet-in is handed to
\* handle_topology_discovery_packet_in, and the virtual switches it is sent
\* on to (the branch for the other tables only logs: "TODO")
handle_packet_in(packet_in_message) ==
    IF packet_in_message.table_id = 0
    THEN [topology |-> packet_in_message.cookie = 1, reissued |-> {}]
    ELSE [topology |-> FALSE, reissued |-> {}]

HandlePacketIn(packet_in_message) ==
    /\ pi_in' = packet_in_message
    /\ LET r == handle_packet_in(packet_in_message)
       IN /\ pi_topology' = IF r.topology THEN pi_topology \cup {packet_in_message.in_port}
                             ELSE pi_topology
          /\ pi_reissued' = pi_reissued \cup
                {[to |-> v, in_port |-> packet_in_message.in_port] : v \in r.reissued}
    /\ UNCHANGED notPiVars

NextPacketIn ==
    \E table_id \in PacketInTables, cookie \in PacketInCookies, in_port \in PortNos,
       virtual_switch \in VirtualSwitches :
        HandlePacketIn([table_id |-> table_id, cookie |-> cookie, in_port |-> in_port,
                        virtual_switch |-> virtual_switch])

SpecPacketIn == Init /\ [][NextPacketIn]_vars

\* C26: a packet-in with table id 0 and cookie 1 is handed to the topology
\* engine and no other packet-in is; a packet-in from a table that is not
\* the hypervisor's is sent on to the virtual switch that its metadata tag
\* names and to no other.
C26_PacketInDispatch ==
    [][LET m == pi_in'
       IN /\ pi_topology' = IF m.table_id = 0 /\ m.cookie = 1
                             THEN pi_topology \cup {m.in_port}
                             ELSE pi_topology
          /\ pi_reissued' = IF m.table_id \notin HypervisorTables
                             THEN pi_reissued \cup
                                     {[to |-> m.virtual_switch, in_port |-> m.in_port]}
                             ELSE pi_reissued
      ]_vars

(***************************************************************************)
(* OpenflowConnection: the send queue                                      *)
(***************************************************************************)

\* How many messages one session is given to send, and what they are
MaxMessages == 4
Messages == {"hello", "flow_mod", "barrier_request"}

\* OpenflowConnection::send_message_queue_head: an asynchronous write of the
\* element at the front of send_queue is started
send_message_queue_head(queue, in_flight) == Append(in_flight, Head(queue))

\* OpenflowConnection::send_message with the test for an idle socket left
\* out: every call starts a write of the front of the queue
SendMessage_always_writes(message) ==
    /\ Len(enqueued) < MaxMessages
    /\ enqueued' = Append(enqueued, message)
    /\ send_queue' = Append(send_queue, message)
    /\ writes' = send_message_queue_head(send_queue', writes)
    /\ UNCHANGED written
    /\ UNCHANGED notSqVars

\* OpenflowConnection::send_message: under send_queue_mutex the serialized
\* message is pushed on send_queue, and a write is started only when the
\* queue was empty (the message is then the front of the queue)
SendMessage(message) ==
    /\ Len(enqueued) < MaxMessages
    /\ enqueued' = Append(enqueued, message)
    /\ send_queue' = Append(send_queue, message)
    /\ writes' = IF send_queue = <<>>
                 THEN send_message_queue_head(send_queue', writes)
                 ELSE writes
    /\ UNCHANGED written
    /\ UNCHANGED notSqVars

\* OpenflowConnection::handle_send_message: the completion of a write. The
\* bytes of that write are on the socket; under send_queue_mutex the front
\* of the queue is popped and, if a message is left, its write is started
HandleSendMessage ==
    \E i \in DOMAIN writes :
        LET others == SubSeq(writes, 1, i - 1) \o SubSeq(writes, i + 1, Len(writes))
        IN /\ written' = Append(written, writes[i])
           /\ send_queue' = Tail(send_queue)
           /\ writes' = IF send_queue' = <<>>
                        THEN others
                        ELSE send_message_queue_head(send_queue', others)
           /\ UNCHANGED enqueued
           /\ UNCHANGED notSqVars

NextSend ==
    \/ \E message \in Messages : SendMessage(message)
    \/ HandleSendMessage

SpecSend == Init /\ [][NextSend]_vars

\* C27: on one session at most one socket write is in flight, the message
\* being written is the front of the send queue, and the messages written
\* to the socket followed by the messages still queued are the messages in
\* the order send_message was called, however the calls of send_message
\* and the completions of the writes interleave.
C27_SingleWriteFifo ==
    /\ Len(writes) <= 1
    /\ writes # <<>> => send_queue # <<>> /\ writes[1] = Head(send_queue)
    /\ written \o send_queue = enqueued

\* Two messages wait behind the one being written, after another was written
C27_Witness ==
    /\ Len(written) >= 1
    /\ Len(send_queue) >= 3
    /\ Len(writes) = 1
    /\ send_queue[1] # send_queue[2]

(***************************************************************************)
(* OpenflowConnection: the echo keepalive                                  *)
(***************************************************************************)

\* How many times the echo timer of one session expires
MaxEchoTicks == 4

\* OpenflowConnection::handle_echo_reply that leaves echo_received alone
HandleEchoReply_ignored(s) ==
    /\ echo_open[s]
    /\ echo_outstanding[s]
    /\ echo_outstanding' = [echo_outstanding EXCEPT ![s] = FALSE]
    /\ UNCHANGED <<echo_received, echo_open, echo_ticks, echo_missed>>
    /\ UNCHANGED notEchoVars

\* OpenflowConnection::handle_echo_reply: the echo request of session s is
\* answered, echo_received is set
HandleEchoReply(s) ==
    /\ echo_open[s]
    /\ echo_outstanding[s]
    /\ echo_received' = [echo_received EXCEPT ![s] = TRUE]
    /\ echo_outstanding' = [echo_outstanding EXCEPT ![s] = FALSE]
    /\ UNCHANGED <<echo_open, echo_ticks, echo_missed>>
    /\ UNCHANGED notEchoVars

\* OpenflowConnection::send_echo_message, the handler of echo_timer: when
\* the last echo request was not answered the connection is terminated,
\* otherwise echo_received is cleared, an echo request is sent and the
\* timer is scheduled again (schedule_echo_message). echo_missed records
\* that the timer found a request of the session without its reply.
EchoTick(s) ==
    /\ echo_open[s]
    /\ echo_ticks[s] < MaxEchoTicks
    /\ echo_ticks' = [echo_ticks EXCEPT ![s] = @ + 1]
    /\ echo_missed' = [echo_missed EXCEPT ![s] = @ \/ echo_outstanding[s]]
    /\ IF echo_received[s]
       THEN /\ echo_received' = [echo_received EXCEPT ![s] = FALSE]
            /\ echo_outstanding' = [echo_outstanding EXCEPT ![s] = TRUE]
            /\ UNCHANGED echo_open
       ELSE /\ echo_open' = [echo_open EXCEPT ![s] = FALSE]
            /\ UNCHANGED <<echo_received, echo_outstanding>>
    /\ UNCHANGED notEchoVars

NextEcho ==
    \E s \in SwitchIds :
        \/ EchoTick(s)
        \/ HandleEchoReply(s)

SpecEcho == Init /\ [][NextEcho]_vars

\* C28: an echo tick of a session whose last echo request was answered
\* clears echo_received and sends an echo request; an echo tick that finds
\* no echo reply received since the tick before terminates the connection;
\* and a session is terminated by the echo timer only after a tick found
\* one of its echo requests unanswered.
C28_EchoKeepalive ==
    /\ [](\A s \in SwitchIds : ~echo_open[s] => echo_missed[s])
    /\ [][\A s \in SwitchIds :
            echo_ticks'[s] # echo_ticks[s] =>
                IF echo_outstanding[s]
                THEN ~echo_open'[s]
                ELSE echo_open'[s] /\ ~echo_received'[s] /\ echo_outstanding'[s]
         ]_vars

\* One session answered every echo request up to the last tick and is
\* open, another was terminated at its second tick
C28_Witness ==
    \E s, t \in SwitchIds :
        /\ echo_ticks[s] = MaxEchoTicks
        /\ echo_open[s]
        /\ ~echo_open[t]
        /\ echo_ticks[t] = 2

(***************************************************************************)
(* PhysicalSwitch: the group-features and meter-features replies           *)
(***************************************************************************)

\* ofp_group_type and ofp_meter_band_type of OpenFlow 1.3
OFPGT_ALL == 0
OFPGT_INDIRECT == 2
OFPMBT_DROP == 1

\* The bitwise and of two naturals (operator & on uint32_t)
RECURSIVE BitAnd(_, _)
BitAnd(x, y) ==
    IF x = 0 \/ y = 0 THEN 0
    ELSE (x % 2) * (y % 2) + 2 * BitAnd(x \div 2, y \div 2)

\* 1 << n
ShiftLeft1(n) == 2 ^ n

\* The bitmaps a switch reports: ofp_group_features.types is a bitmap of
\* (1 << OFPGT_*), ofp_meter_features.band_types a bitmap of (1 << OFPMBT_*)
GroupTypeBitmaps == {1, 4, 5}
BandTypeBitmaps == {1, 2}
MaxMeterCounts == {0, 1}

\* PhysicalSwitch::handle_multipart_reply_group_features: what it logs
group_features_errors(types) ==
    (IF BitAnd(types, ShiftLeft1(OFPGT_ALL)) = 0
     THEN {"switch doesn't support ALL group type needed for hypervisor"} ELSE {})
    \cup
    (IF BitAnd(types, ShiftLeft1(OFPGT_INDIRECT)) = 0
     THEN {"switch doesn't support INDIRECT group type needed for hypervisor"} ELSE {})

\* PhysicalSwitch::handle_multipart_reply_meter_features: what it logs
meter_features_errors(band_types, max_meter) ==
    (IF BitAnd(band_types, OFPMBT_DROP) = 0
     THEN {"switch doesn't support drop meter band type"} ELSE {})
    \cup
    (IF max_meter < Cardinality(get_slices)
     THEN {"switch doesn't support enough meters"} ELSE {})

\* PhysicalSwitch::handle_multipart_reply_group_features: the errors are
\* logged and the features are stored
HandleMultipartReplyGroupFeatures(s, types) ==
    /\ s \in alive
    /\ error_log' = [error_log EXCEPT ![s] = @ \cup group_features_errors(types)]
    /\ group_features' = [group_features EXCEPT ![s] = types]
    /\ UNCHANGED meter_features
    /\ UNCHANGED notFeatVars

\* PhysicalSwitch::handle_multipart_reply_meter_features: the errors are
\* logged and the features are stored
HandleMultipartReplyMeterFeatures(s, band_types, max_meter) ==
    /\ s \in alive
    /\ error_log' = [error_log EXCEPT ![s] =
                        @ \cup meter_features_errors(band_types, max_meter)]
    /\ meter_features' = [meter_features EXCEPT ![s] =
                             [band_types |-> band_types, max_meter |-> max_meter]]
    /\ UNCHANGED group_features
    /\ UNCHANGED notFeatVars

NextFeatures ==
    \E s \in SwitchIds :
        \/ Accept(s)
        \/ HandleFeaturesReply(s)
        \/ \E types \in GroupTypeBitmaps : HandleMultipartReplyGroupFeatures(s, types)
        \/ \E band_types \in BandTypeBitmaps, max_meter \in MaxMeterCounts :
               HandleMultipartReplyMeterFeatures(s, band_types, max_meter)

SpecFeatures == Init /\ [][NextFeatures]_vars

\* The switch reported the group type / the meter band type
SupportsGroupType(types, group_type) == (types \div ShiftLeft1(group_type)) % 2 = 1
SupportsBandType(band_types, band_type) == (band_types \div ShiftLeft1(band_type)) % 2 = 1

\* The step is a features reply of switch s
FeaturesReplyOf(s) ==
    \/ group_features'[s] # group_features[s]
    \/ meter_features'[s] # meter_features[s]
    \/ error_log'[s] # error_log[s]

\* C29: a group-features reply without ALL or without INDIRECT support and
\* a meter-features reply without drop bands or with fewer meters than
\* slices are logged and keep the session: the connection and the
\* registration of the switch are as before the reply; the switch that
\* reported no ALL support is on record as lacking it, and no group of type
\* ALL is created on it.
C29_FeaturesLoggedSessionKept ==
    [][\A s \in SwitchIds :
        /\ FeaturesReplyOf(s) =>
              /\ s \in alive' /\ (s \in alive)
              /\ state'[s] = state[s]
              /\ datapath_id'[s] = datapath_id[s]
              /\ identified' = identified
        /\ group_features'[s] # group_features[s] =>
              /\ ~SupportsGroupType(group_features'[s], OFPGT_ALL) =>
                    "switch doesn't support ALL group type needed for hypervisor"
                        \in error_log'[s]
              /\ ~SupportsGroupType(group_features'[s], OFPGT_INDIRECT) =>
                    "switch doesn't support INDIRECT group type needed for hypervisor"
                        \in error_log'[s]
        /\ meter_features'[s] # meter_features[s] =>
              /\ ~SupportsBandType(meter_features'[s].band_types, OFPMBT_DROP) =>
                    "switch doesn't support drop meter band type" \in error_log'[s]
              /\ meter_features'[s].max_meter < Cardinality(get_slices) =>
                    "switch doesn't support enough meters" \in error_log'[s]
        /\ \A i \in DOMAIN start_log'[s] :
              start_log'[s][i].type = "OFPT_GROUP_MOD" =>
                  start_log'[s][i].group_type # "OFPGT_ALL"
      ]_vars

(***************************************************************************)
(* PhysicalSwitch: the switch-transit rules                                *)
(***************************************************************************)

\* The other switches and the ports of the switch whose switch-transit
\* rules are followed
TransitOthers == {2, 3}
TransitPorts == {1, 2}

\* A flow-mod of the switch-transit loop: other_id is the switch of the
\* iteration that sent it, switch_tag the switch of the SwitchVLANTag it
\* matches on (0: the flow-mod has no match field), output the port of its
\* output action (0: no instruction)
TransitFlowMod(command, other_id, switch_tag, output, pop_vlan) ==
    [command |-> command, table_id |-> 1, priority |-> 20, other_id |-> other_id,
     switch_tag |-> switch_tag, output |-> output, pop_vlan |-> pop_vlan]

\* The switch-transit loop with every flow-mod sent as ADD
TransitFlowMods_always_add(id, S, d, nxt, cur_next) ==
    Concat(Ascending(S \ {id}),
           [other_id \in S \ {id} |->
               LET next_exists == other_id \in DOMAIN nxt
                   current_exists == other_id \in DOMAIN cur_next
               IN IF ~next_exists /\ ~current_exists THEN <<>>
                  ELSE IF next_exists /\ current_exists /\ nxt[other_id] = cur_next[other_id]
                  THEN <<>>
                  ELSE IF next_exists
                  THEN <<TransitFlowMod("OFPFC_ADD", other_id, other_id, nxt[other_id],
                                        get_distance(d, other_id) = 1)>>
                  ELSE <<TransitFlowMod("OFPFC_ADD", other_id, 0, 0, FALSE)>>])

\* PhysicalSwitch::update_dynamic_rules: the flow-mods of its loop over the
\* switches of the registry S, on the switch with internal id id.  Match
\* and instruction are added only when next holds the other switch.
TransitFlowMods(id, S, d, nxt, cur_next) ==
    Concat(Ascending(S \ {id}),
           [other_id \in S \ {id} |->
               LET next_exists == other_id \in DOMAIN nxt
                   current_exists == other_id \in DOMAIN cur_next
                   command == IF ~current_exists THEN "OFPFC_ADD"
                              ELSE IF current_exists /\ next_exists THEN "OFPFC_MODIFY"
                              ELSE "OFPFC_DELETE"
               IN IF ~next_exists /\ ~current_exists THEN <<>>
                  ELSE IF next_exists /\ current_exists /\ nxt[other_id] = cur_next[other_id]
                  THEN <<>>
                  ELSE IF next_exists
                  THEN <<TransitFlowMod(command, other_id, other_id, nxt[other_id],
                                        other_id \in DOMAIN d /\ d[other_id] = 1)>>
                  ELSE <<TransitFlowMod(command, other_id, 0, 0, FALSE)>>])

\* The switch-transit rule a flow-mod installs
TransitRuleOf(m) == [switch_tag |-> m.switch_tag, output |-> m.output, pop_vlan |-> m.pop_vlan]

\* The rules of table 1 a flow-mod that is not strict matches: all of them
\* when it has no match field
TransitMatched(table, m) ==
    {r \in table : m.switch_tag = 0 \/ r.switch_tag = m.switch_tag}

\* The switch carries out a switch-transit flow-mod
TransitApplyFlowMod(table, m) ==
    IF m.command = "OFPFC_ADD"
    THEN {r \in table : r.switch_tag # m.switch_tag} \cup {TransitRuleOf(m)}
    ELSE IF m.command = "OFPFC_MODIFY"
    THEN {IF r \in TransitMatched(table, m)
          THEN [r EXCEPT !.output = m.output, !.pop_vlan = m.pop_vlan] ELSE r : r \in table}
    ELSE table \ TransitMatched(table, m)

RECURSIVE TransitApplyFlowMods(_, _)
TransitApplyFlowMods(table, mods) ==
    IF mods = <<>> THEN table
    ELSE TransitApplyFlowMods(TransitApplyFlowMod(table, Head(mods)), Tail(mods))

\* The routes Floyd-Warshall can leave on the switch when the registry is
\* S: a port for every switch that is reached, one neighbour per port, and
\* a switch two hops away behind the port of a neighbour
TransitRoutes(S) ==
    {r \in UNION {[dist : [D \cup {TransitOwn} -> 0..2], next : [D -> TransitPorts]] :
                     D \in SUBSET (S \ {TransitOwn})} :
        /\ r.dist[TransitOwn] = 0
        /\ \A o \in DOMAIN r.next :
              /\ r.dist[o] \in {1, 2}
              /\ r.dist[o] = 1 =>
                    \A k \in DOMAIN r.next : k # o /\ r.dist[k] = 1 => r.next[k] # r.next[o]
              /\ r.dist[o] = 2 =>
                    \E k \in DOMAIN r.next : r.dist[k] = 1 /\ r.next[k] = r.next[o]}

\* Hypervisor::calculate_routes leaves the registry S and the routes r, and
\* calls update_dynamic_rules: the switch-transit loop sends its flow-mods;
\* it stores nothing in current_next
TransitUpdate(S, r) ==
    /\ tr_registry' = S
    /\ tr_dist' = Map(r.dist)
    /\ tr_next' = Map(r.next)
    /\ tr_sent' = TransitFlowMods(TransitOwn, S, r.dist, r.next, tr_current_next)
    /\ tr_table' = TransitApplyFlowMods(tr_table, tr_sent')
    /\ UNCHANGED tr_current_next
    /\ UNCHANGED notTransitVars

NextTransit ==
    \E S \in {X \cup {TransitOwn} : X \in SUBSET TransitOthers} :
        \E r \in TransitRoutes(S) : TransitUpdate(S, r)

SpecTransit == Init /\ [][NextTransit]_vars

\* The switch-transit loop on any current_next: the map is drawn from the
\* maps over the other switches
InitTransitTable ==
    /\ BaseInit
    /\ RuleIdle /\ PortIdle /\ PacketInIdle /\ SendIdle /\ EchoIdle /\ FeaturesIdle
    /\ SeedIdle /\ OutputGroupsIdle
    /\ TransitRest
    /\ tr_current_next \in
          {Map(f) : f \in UNION {[D -> TransitPorts] : D \in SUBSET TransitOthers}}

SpecTransitTable == InitTransitTable /\ [][NextTransit]_vars

\* The commands of the flow-mods the iteration of switch o sent
TransitCommands(sent, o) ==
    [i \in 1..Len(SelectSeq(sent, LAMBDA m : m.other_id = o)) |->
        SelectSeq(sent, LAMBDA m : m.other_id = o)[i].command]

\* C31: for each other switch o of the registry the switch-transit loop
\* sends one table-1 priority-20 flow-mod: ADD when next[o] exists and
\* current_next[o] does not, MODIFY when both exist and differ, DELETE when
\* current_next[o] exists and next[o] does not; it sends nothing when both
\* are absent or equal, and nothing for the switch's own id.
C31_TransitCommand ==
    [][/\ \A i \in DOMAIN tr_sent' :
             /\ tr_sent'[i].table_id = 1 /\ tr_sent'[i].priority = 20
             /\ tr_sent'[i].other_id \in tr_registry' \ {TransitOwn}
       /\ \A o \in tr_registry' \ {TransitOwn} :
             LET next_exists == o \in DOMAIN tr_next'
                 current_exists == o \in DOMAIN tr_current_next
             IN TransitCommands(tr_sent', o) =
                   IF next_exists /\ ~current_exists THEN <<"OFPFC_ADD">>
                   ELSE IF next_exists /\ current_exists
                           /\ tr_next'[o] # tr_current_next[o] THEN <<"OFPFC_MODIFY">>
                   ELSE IF current_exists /\ ~next_exists THEN <<"OFPFC_DELETE">>
                   ELSE <<>>
      ]_vars

\* One update sent a MODIFY for one switch and a DELETE for the other
C31_Witness ==
    \E i, j \in DOMAIN tr_sent :
        /\ tr_sent[i].command = "OFPFC_MODIFY"
        /\ tr_sent[j].command = "OFPFC_DELETE"

\* C32: after any sequence of route changes the switch-transit rule that is
\* installed for a destination pops the VLAN tag exactly when the current
\* dist of the destination is 1.
C32_PopVlanAtLastHop ==
    \A r \in tr_table : r.pop_vlan <=> (get_distance(tr_dist, r.switch_tag) = 1)

\* C39: once a switch is no longer in the registry, the update that follows
\* has deleted the switch-transit rule for it: the switch keeps no
\* switch-transit rule and no current_next entry for a switch outside the
\* registry.
C39_NoTransitRuleForGoneSwitch ==
    /\ \A r \in tr_table : r.switch_tag \in tr_registry
    /\ DOMAIN tr_current_next \subseteq tr_registry

(***************************************************************************)
(* PhysicalSwitch: reset_distances                                         *)
(***************************************************************************)

\* The switch reset_distances runs on, its ports and the other switches
SeedOwn == 1
SeedPorts == 1..4
SeedOthers == {2, 3}

\* The links a port of the switch can carry: to a port of another switch,
\* or to another port of the switch itself
SeedLinkChoices ==
    {[a |-> SeedOwn, pa |-> p, b |-> o, pb |-> 1] : p \in SeedPorts, o \in SeedOthers}
    \cup {[a |-> SeedOwn, pa |-> e[1], b |-> SeedOwn, pb |-> e[2]] :
             e \in {x \in SeedPorts \X SeedPorts : x[1] < x[2]}}

\* The ports of the switch a link ends on
SeedEnds(L) ==
    (IF L.a = SeedOwn THEN {L.pa} ELSE {}) \cup (IF L.b = SeedOwn THEN {L.pb} ELSE {})

\* The sets of live links: no port carries two links
SeedLinkSets ==
    {Ls \in SUBSET SeedLinkChoices :
        \A L, M \in Ls : L # M => SeedEnds(L) \cap SeedEnds(M) = {}}

\* The port map of the switch when the links Ls are live
SeedPortMap(Ls) ==
    Map([p \in SeedPorts |->
        [link |-> IF \E L \in Ls : p \in SeedEnds(L)
                  THEN CHOOSE L \in Ls : p \in SeedEnds(L) ELSE NoLink,
         state |-> "no_rule"]])

\* Hypervisor::calculate_routes calls reset_distances on the switch while
\* the links Ls are live
ResetDistances(Ls) ==
    /\ sd_ports' = SeedPortMap(Ls)
    /\ sd_dist' = reset_distances(SeedOwn, sd_ports').dist
    /\ sd_next' = reset_distances(SeedOwn, sd_ports').next
    /\ UNCHANGED notSeedVars

NextSeed == \E Ls \in SeedLinkSets : ResetDistances(Ls)

SpecSeed == Init /\ [][NextSeed]_vars

\* The switches a link of the port map leads to
SeedLeadsTo(L, n) == (L.a = SeedOwn /\ L.b = n) \/ (L.b = SeedOwn /\ L.a = n)
SeedNeighbours(prts) ==
    {n \in SeedOthers \cup {SeedOwn} :
        \E p \in DOMAIN prts : prts[p].link # NoLink /\ SeedLeadsTo(prts[p].link, n)}
    \ {SeedOwn}

\* C36: after reset_distances on switch s, for every set of live links,
\* dist[s] is 0, every neighbour n other than s has dist 1 and a next port
\* whose link leads to n, and dist and next hold no other entry, so that
\* get_distance is infinite for every other switch.
C36_ResetDistancesSeeds ==
    sd_dist # EmptyMap =>
        /\ get_distance(sd_dist, SeedOwn) = 0
        /\ \A n \in SeedNeighbours(sd_ports) :
              /\ get_distance(sd_dist, n) = 1
              /\ n \in DOMAIN sd_next
              /\ sd_next[n] \in DOMAIN sd_ports
              /\ SeedLeadsTo(sd_ports[sd_next[n]].link, n)
        /\ DOMAIN sd_dist = {SeedOwn} \cup SeedNeighbours(sd_ports)
        /\ DOMAIN sd_next = SeedNeighbours(sd_ports)
        /\ \A o \in SeedOthers \ SeedNeighbours(sd_ports) :
              get_distance(sd_dist, o) = infinite

(***************************************************************************)
(* PhysicalSwitch: more than one features reply                            *)
(***************************************************************************)

\* The datapath ids switch s reports in its features replies: its own, and
\* another one in a later reply
ReportedDpids(s) == {DpidOf(s), DpidOf(s) + NumSwitches}

\* PhysicalSwitch::handle_features_reply with the datapath id of the
\* message: a reply to a registered switch logs an error and is handled
\* like the first one
HandleFeaturesReplyFrom(s, dpid) ==
    /\ s \in alive
    /\ datapath_id' = [datapath_id EXCEPT ![s] = dpid]
    /\ identified' = Put(identified, dpid, s)
    /\ state' = [state EXCEPT ![s] = "registered"]
    /\ Recalculate(alive, ports)
    /\ UNCHANGED <<tenantVars, sessVars, cables, hosts, device, accepted, alive, links,
                   slice_started, needed_ports>>

NextReregister ==
    \E s \in SpecSwitches :
        \/ Accept(s)
        \/ \E dpid \in ReportedDpids(s) : HandleFeaturesReplyFrom(s, dpid)
        \/ Stop(s)

SpecReregister == Init /\ [][NextReregister]_vars

\* The datapath ids under which switch s is registered
RegistrationsOf(s) == {d \in DOMAIN identified : identified[d] = s}

\* C40: a physical switch has at most one datapath-id registration in the
\* hypervisor at any time, whatever features replies it sent, and none
\* after its stop().
C40_OneRegistrationPerSwitch ==
    \A s \in SwitchIds :
        /\ Cardinality(RegistrationsOf(s)) <= 1
        /\ s \notin alive => RegistrationsOf(s) = {}

(***************************************************************************)
(* PhysicalSwitch: the metadata tag of a host port                         *)
(***************************************************************************)

\* The virtual switches named by the metadata tags of the in-port rules
\* (table 0, priority 10) installed for port p
HostRuleTags(p) ==
    {r.virtual_switch : r \in {x \in rule_table :
                                  x.table_id = 0 /\ x.priority = 10 /\ x.port = p}}

\* C37: after update_dynamic_rules, for every port whose recorded state is
\* host_rule the in-port rule installed in table 0 writes the id of the one
\* virtual switch that is in needed_ports of the port, also when that
\* virtual switch has taken the place of another one on the port.
C37_HostRuleNamesInterestedSwitch ==
    rule_fresh =>
        \A p \in DOMAIN rule_ports :
            rule_ports[p].state = "host_rule" =>
                /\ p \in DOMAIN rule_needed
                /\ HostRuleTags(p) = rule_needed[p]

(***************************************************************************)
(* PhysicalSwitch: output groups and switch forward groups                 *)
(***************************************************************************)

\* The virtual switches that can have rewrite data on the switch
OgVirtualSwitches == {1}

\* VirtualSwitch::get_port_to_physical_switch, by internal id of the
\* physical switch: virtual port 1 is on this switch, virtual port 2 on
\* switch 2 and virtual port 3 on switch 3
OgPortToSwitch(v) == (1 :> TransitOwn) @@ (2 :> 2) @@ (3 :> 3)

\* VirtualSwitch::get_port_map(dpid).get_physical: the physical port of a
\* virtual port is the host port of its physical switch
OgPhysicalPort(v, virtual_port) == Wiring.host

\* group_id_allocator.new_id(): the ids in ascending order, none twice;
\* id 0 is the controller-output group of create_static_rules
new_id(next_id) == [id |-> next_id, next_id |-> next_id + 1]

\* An OutputGroup and a SwitchForwardGroup
Group(group_id, st, output_port) ==
    [group_id |-> group_id, state |-> st, output_port |-> output_port]

\* A group-mod of update_dynamic_rules with the actions of its bucket: the
\* port of the PortVLANTag ("max_port_id" on a shared link, "foreign_port"
\* with its number otherwise) or the switch of the SwitchVLANTag, the port
\* of the output action and the group of the group action (0: none)
OgGroupMod(command, group_id, push_vlan, tag, tag_port, tag_switch, output, group) ==
    [type |-> "OFPT_GROUP_MOD", command |-> command, group_type |-> "OFPGT_INDIRECT",
     group_id |-> group_id, push_vlan |-> push_vlan, tag |-> tag, tag_port |-> tag_port,
     tag_switch |-> tag_switch, output |-> output, group |-> group]

\* get_forward_group_id that allocates a group id at every call
get_forward_group_id_always_new(forward, next_id, switch_id, junk) ==
    [group_id |-> new_id(next_id).id,
     forward |-> Put(forward, switch_id, Group(new_id(next_id).id, "no_rule", junk)),
     next_id |-> new_id(next_id).next_id]

\* PhysicalSwitch::get_forward_group_id: the group id of the switch forward
\* group of switch_id; the first call allocates it and sets group_id and
\* state, output_port is left as the new map entry has it (junk)
get_forward_group_id(forward, next_id, switch_id, junk) ==
    IF switch_id \notin DOMAIN forward
    THEN [group_id |-> new_id(next_id).id,
          forward |-> Put(forward, switch_id, Group(new_id(next_id).id, "no_rule", junk)),
          next_id |-> new_id(next_id).next_id]
    ELSE [group_id |-> forward[switch_id].group_id, forward |-> forward, next_id |-> next_id]

\* The choice of the state that takes every other switch for more than one
\* hop away
OutputGroupState_never_one_hop(v, virtual_port, S, d, nxt, local) ==
    LET o == OgPortToSwitch(v)[virtual_port]
    IN IF o = TransitOwn
       THEN [found |-> TRUE,
             state |-> IF local # "link" THEN "host_rule" ELSE "shared_link_rule",
             output_port |-> OgPhysicalPort(v, virtual_port)]
       ELSE IF o \notin S \/ o \notin DOMAIN d \/ o \notin DOMAIN nxt
       THEN [found |-> FALSE, state |-> "no_rule", output_port |-> 0]
       ELSE [found |-> TRUE, state |-> "switch_rule", output_port |-> nxt[o]]

\* update_dynamic_rules: the state and the output port the output group of
\* virtual port virtual_port of virtual switch v should have.  found is
\* false when get_physical_switch_by_datapath_id, dist.at or next.at finds
\* no entry.
OutputGroupState(v, virtual_port, S, d, nxt, local) ==
    LET o == OgPortToSwitch(v)[virtual_port]
    IN IF o = TransitOwn
       THEN [found |-> TRUE,
             state |-> IF local # "link" THEN "host_rule" ELSE "shared_link_rule",
             output_port |-> OgPhysicalPort(v, virtual_port)]
       ELSE IF o \notin S \/ o \notin DOMAIN d
       THEN [found |-> FALSE, state |-> "no_rule", output_port |-> 0]
       ELSE IF o \notin DOMAIN nxt
       THEN [found |-> FALSE, state |-> "no_rule", output_port |-> 0]
       ELSE [found |-> TRUE,
             state |-> IF d[o] = 1 THEN "switch_one_hop_rule" ELSE "switch_rule",
             output_port |-> nxt[o]]

\* update_dynamic_rules: one turn of the loop over the virtual ports of the
\* virtual switches in rewrite_map.  acc holds rewrite_map, the switch
\* forward groups, the allocator, the group-mods sent so far and whether a
\* lookup threw; after a throw nothing more is done.
OutputGroupTurn(acc, v, virtual_port, S, d, nxt, local, junk) ==
    LET o == OgPortToSwitch(v)[virtual_port]
        output_group == acc.rewrite_map[v][virtual_port]
        new == OutputGroupState(v, virtual_port, S, d, nxt, local)
        command == IF output_group.state = "no_rule" THEN "OFPGC_ADD" ELSE "OFPGC_MODIFY"
        stored == [acc.rewrite_map EXCEPT ![v][virtual_port] =
                      Group(output_group.group_id, new.state, new.output_port)]
        fwd == get_forward_group_id(acc.forward, acc.next_id, o, junk)
        foreign_output_port == OgPhysicalPort(v, virtual_port)
    IN IF acc.threw THEN acc
       ELSE IF ~new.found THEN [acc EXCEPT !.threw = TRUE]
       ELSE IF output_group.state = new.state /\ output_group.output_port = new.output_port
       THEN acc
       ELSE IF new.state = "host_rule"
       THEN [acc EXCEPT !.rewrite_map = stored,
                        !.sent = Append(@, OgGroupMod(command, output_group.group_id,
                                     FALSE, "none", 0, 0, new.output_port, 0))]
       ELSE IF new.state = "shared_link_rule"
       THEN [acc EXCEPT !.rewrite_map = stored,
                        !.sent = Append(@, OgGroupMod(command, output_group.group_id,
                                     TRUE, "max_port_id", 0, 0, new.output_port, 0))]
       ELSE IF new.state = "switch_one_hop_rule"
       THEN [acc EXCEPT !.rewrite_map = stored,
                        !.sent = Append(@, OgGroupMod(command, output_group.group_id,
                                     TRUE, "foreign_port", foreign_output_port, 0,
                                     new.output_port, 0))]
       ELSE [acc EXCEPT !.rewrite_map = stored,
                        !.forward = fwd.forward,
                        !.next_id = fwd.next_id,
                        !.sent = Append(@, OgGroupMod(command, output_group.group_id,
                                     TRUE, "foreign_port", foreign_output_port, 0,
                                     0, fwd.group_id))]

\* The loop over rewrite_map and the virtual ports, in ascending order
RECURSIVE OutputGroupLoop(_, _, _, _, _, _, _)
OutputGroupLoop(acc, todo, S, d, nxt, local, junk) ==
    IF todo = <<>> THEN acc
    ELSE OutputGroupLoop(
             OutputGroupTurn(acc, Head(todo)[1], Head(todo)[2], S, d, nxt, local, junk),
             Tail(todo), S, d, nxt, local, junk)

\* update_dynamic_rules: one turn of the loop over switch_id_to_group_id.
\* The group is added when it has no rule, and modified when next holds
\* another port than the group's output_port; output_port is not assigned.
ForwardGroupTurn(acc, switch_id, nxt) ==
    LET switch_forward_group == acc.forward[switch_id]
        new_output_port == nxt[switch_id]
    IN IF acc.threw THEN acc
       ELSE IF switch_id \notin DOMAIN nxt THEN [acc EXCEPT !.threw = TRUE]
       ELSE IF switch_forward_group.state = "no_rule"
       THEN [acc EXCEPT !.forward[switch_id].state = "forward_rule",
                        !.sent = Append(@, OgGroupMod("OFPGC_ADD",
                                     switch_forward_group.group_id,
                                     TRUE, "switch", 0, switch_id, new_output_port, 0))]
       ELSE IF new_output_port = switch_forward_group.output_port THEN acc
       ELSE [acc EXCEPT !.sent = Append(@, OgGroupMod("OFPGC_MODIFY",
                                     switch_forward_group.group_id,
                                     TRUE, "switch", 0, switch_id, new_output_port, 0))]

RECURSIVE ForwardGroupLoop(_, _, _)
ForwardGroupLoop(acc, todo, nxt) ==
    IF todo = <<>> THEN acc
    ELSE ForwardGroupLoop(ForwardGroupTurn(acc, Head(todo), nxt), Tail(todo), nxt)

\* The virtual ports of the virtual switches in rewrite_map, in the order
\* of the loops
OgTurns(rewrite_map) ==
    Concat(Ascending(DOMAIN rewrite_map),
           [v \in DOMAIN rewrite_map |->
               [i \in 1..Len(Ascending(DOMAIN rewrite_map[v])) |->
                   <<v, Ascending(DOMAIN rewrite_map[v])[i]>>]])

\* PhysicalSwitch::update_dynamic_rules: the loop over rewrite_map and then
\* the loop over switch_id_to_group_id
update_groups(rewrite_map, forward, next_id, S, d, nxt, local, junk) ==
    LET start_acc == [rewrite_map |-> rewrite_map, forward |-> forward,
                      next_id |-> next_id, sent |-> <<>>, threw |-> FALSE]
        after_output == OutputGroupLoop(start_acc, OgTurns(rewrite_map), S, d, nxt, local, junk)
    IN ForwardGroupLoop(after_output, Ascending(DOMAIN after_output.forward), nxt)

\* The switch carries out the group-mods: ADD and MODIFY leave the group
\* with the bucket of the group-mod
RECURSIVE ApplyGroupMods(_, _)
ApplyGroupMods(installed, mods) ==
    IF mods = <<>> THEN installed
    ELSE ApplyGroupMods(Put(Erase(installed, Head(mods).group_id),
                            Head(mods).group_id, Head(mods)),
                        Tail(mods))

\* The virtual switch v, whose physical switches are all registered and
\* reachable, gets rewrite data on the switch: an output group with a new
\* group id and no rule for each of its virtual ports
OgAddRewriteEntry(v) ==
    /\ ~og_threw
    /\ v \notin DOMAIN og_rewrite_map
    /\ \A virtual_port \in DOMAIN OgPortToSwitch(v) :
          /\ OgPortToSwitch(v)[virtual_port] \in og_registry
          /\ OgPortToSwitch(v)[virtual_port] \in DOMAIN og_dist
    /\ og_rewrite_map' =
          Put(og_rewrite_map, v,
              Map([virtual_port \in DOMAIN OgPortToSwitch(v) |->
                      Group(og_next_id + virtual_port - 1, "no_rule", 0)]))
    /\ og_next_id' = og_next_id + Cardinality(DOMAIN OgPortToSwitch(v))
    /\ UNCHANGED <<og_registry, og_dist, og_next, og_local, og_forward, og_sent,
                   og_installed, og_threw>>
    /\ UNCHANGED notOgVars

\* update_dynamic_rules runs on the switch with the registry, the routes
\* and the local port as they are after the step
OgUpdate(junk) ==
    LET u == update_groups(og_rewrite_map, og_forward, og_next_id, og_registry',
                           og_dist', og_next', og_local', junk)
    IN /\ og_rewrite_map' = u.rewrite_map
       /\ og_forward' = u.forward
       /\ og_next_id' = u.next_id
       /\ og_sent' = u.sent
       /\ og_installed' = ApplyGroupMods(og_installed, u.sent)
       /\ og_threw' = u.threw

\* Hypervisor::calculate_routes leaves the registry S and the routes r and
\* calls update_dynamic_rules
OgRoutesChange(S, r, junk) ==
    /\ ~og_threw
    /\ og_registry' = S
    /\ og_dist' = Map(r.dist)
    /\ og_next' = Map(r.next)
    /\ UNCHANGED og_local
    /\ OgUpdate(junk)
    /\ UNCHANGED notOgVars

\* PhysicalSwitch::handle_port_status: handle_port on the local port of the
\* virtual ports (added, deleted, or a link found on it), then
\* update_dynamic_rules
OgPortStatus(local, junk) ==
    /\ ~og_threw
    /\ og_local' = local
    /\ UNCHANGED <<og_registry, og_dist, og_next>>
    /\ OgUpdate(junk)
    /\ UNCHANGED notOgVars

\* What a member that was never assigned can hold
OgJunk == {0, 1}

NextOutputGroups ==
    \/ \E v \in OgVirtualSwitches : OgAddRewriteEntry(v)
    \/ \E S \in {X \cup {TransitOwn} : X \in SUBSET TransitOthers} :
          \E r \in TransitRoutes(S), junk \in OgJunk : OgRoutesChange(S, r, junk)
    \/ \E local \in {"absent", "host", "link"}, junk \in OgJunk : OgPortStatus(local, junk)

SpecOutputGroups == Init /\ [][NextOutputGroups]_vars

\* The step is a run of update_dynamic_rules that came to its end
OgUpdated ==
    /\ ~og_threw'
    /\ DOMAIN og_rewrite_map' = DOMAIN og_rewrite_map
    /\ <<og_registry', og_dist', og_next', og_local', og_sent', og_forward'>>
          # <<og_registry, og_dist, og_next, og_local, og_sent, og_forward>>

\* The group-mods of the update for the group with the id group_id
OgSentFor(sent, group_id) == SelectSeq(sent, LAMBDA m : m.group_id = group_id)

\* C33: update_dynamic_rules gives the output group of every virtual port
\* of every virtual switch in rewrite_map the state host_rule when the port
\* is on this switch and the local port is unknown or has no link,
\* shared_link_rule when it is on this switch and the local port has a
\* link, switch_one_hop_rule when it is on another switch at distance 1
\* (output over next, the tag carries the foreign physical port), and
\* switch_rule when it is on another switch further away (the port tag,
\* then the switch forward group of that switch).
C33_OutputGroupState ==
    [][OgUpdated =>
        \A v \in DOMAIN og_rewrite_map' :
            \A virtual_port \in DOMAIN og_rewrite_map'[v] :
                LET g == og_rewrite_map'[v][virtual_port]
                    o == OgPortToSwitch(v)[virtual_port]
                    mods == OgSentFor(og_sent', g.group_id)
                IN /\ (o = TransitOwn /\ og_local' \in {"absent", "host"}) =>
                         /\ g.state = "host_rule"
                         /\ \A i \in DOMAIN mods : ~mods[i].push_vlan
                   /\ (o = TransitOwn /\ og_local' = "link") =>
                         /\ g.state = "shared_link_rule"
                         /\ \A i \in DOMAIN mods : mods[i].tag = "max_port_id"
                   /\ (o # TransitOwn /\ og_dist'[o] = 1) =>
                         /\ g.state = "switch_one_hop_rule"
                         /\ g.output_port = og_next'[o]
                         /\ \A i \in DOMAIN mods :
                               /\ mods[i].output = og_next'[o]
                               /\ mods[i].tag = "foreign_port"
                               /\ mods[i].tag_port = OgPhysicalPort(v, virtual_port)
                   /\ (o # TransitOwn /\ og_dist'[o] >= 2) =>
                         /\ g.state = "switch_rule"
                         /\ o \in DOMAIN og_forward'
                         /\ \A i \in DOMAIN mods :
                               /\ mods[i].group = og_forward'[o].group_id
                               /\ mods[i].output = 0
                               /\ mods[i].tag = "foreign_port"
                               /\ mods[i].tag_port = OgPhysicalPort(v, virtual_port)
      ]_vars

\* The four states are in use at once: the local port has a link, switch 2
\* is one hop away and switch 3 behind it
C33_Witness ==
    /\ 1 \in DOMAIN og_rewrite_map
    /\ og_rewrite_map[1][1].state = "shared_link_rule"
    /\ og_rewrite_map[1][2].state = "switch_one_hop_rule"
    /\ og_rewrite_map[1][3].state = "switch_rule"
    /\ Len(og_sent) >= 2
    /\ ~og_threw

\* C34: after every update_dynamic_rules each allocated switch forward
\* group is installed with a bucket that outputs over the current next of
\* its switch, its recorded output_port is that port, and no MODIFY is sent
\* for it when next of its switch is as it was at the update before.
C34_ForwardGroupFollowsNext ==
    [][OgUpdated =>
        \A dst \in DOMAIN og_forward' :
            LET g == og_forward'[dst]
            IN /\ g.group_id \in DOMAIN og_installed'
               /\ og_installed'[g.group_id].output = og_next'[dst]
               /\ g.output_port = og_next'[dst]
               /\ (dst \in DOMAIN og_forward /\ og_forward[dst].state = "forward_rule"
                   /\ dst \in DOMAIN og_next /\ og_next[dst] = og_next'[dst]) =>
                      OgSentFor(og_sent', g.group_id) = <<>>
      ]_vars

\* The group ids in use on the switch, one entry per group
OgGroupIds ==
    [kind : {"controller"}, of : {0}, group_id : {0}]
    \cup UNION {{[kind |-> "output", of |-> <<v, virtual_port>>,
                  group_id |-> og_rewrite_map[v][virtual_port].group_id] :
                    virtual_port \in DOMAIN og_rewrite_map[v]} :
                v \in DOMAIN og_rewrite_map}
    \cup {[kind |-> "forward", of |-> dst, group_id |-> og_forward[dst].group_id] :
             dst \in DOMAIN og_forward}

\* C35: the group ids in use on a physical switch are pairwise distinct and
\* only the controller-output group has id 0; the switch forward group of
\* a switch keeps the id get_forward_group_id first gave it.
C35_GroupIdsDistinct ==
    /\ [](\A g, h \in OgGroupIds : g.group_id = h.group_id => g = h)
    /\ [][\A dst \in DOMAIN og_forward :
             /\ dst \in DOMAIN og_forward'
             /\ og_forward'[dst].group_id = og_forward[dst].group_id]_vars

\* Three output groups and two switch forward groups are allocated
C35_Witness ==
    /\ 1 \in DOMAIN og_rewrite_map
    /\ DOMAIN og_forward = {2, 3}
    /\ og_next_id = 6

\* C38: update_dynamic_rules never looks up a switch or a route that is not
\* there: no run of it fails in get_physical_switch_by_datapath_id, dist.at
\* or next.at.
C38_NoMissingRouteLookup == ~og_threw

=============================================================================
